---- MODULE Spec2Model ----
(***************************************************************************)
(* A model of ArcticAI in four parts.                                      *)
(*                                                                         *)
(* The plan store (src/tool/planning.ts): PlanningTool keeps a Map of      *)
(* plans and one active-plan pointer, and is driven by the commands        *)
(* create, update, list, get, set_active, mark_step and delete.            *)
(*                                                                         *)
(* The agent loop (src/agent/base.ts, react.ts, toolcall.ts): run() drives *)
(* step() inside withState(); step() is think() then act(); think() asks   *)
(* the language model, act() executes the tool calls it proposed.          *)
(*                                                                         *)
(* The planning flow (src/utils/flow-loader.ts): PlanningFlow.execute()    *)
(* asks the model for a plan, then loops: find the current step in the     *)
(* rendered plan, choose an executor, run it, mark the step completed.     *)
(*                                                                         *)
(* The planning agent (PlanningAgent): getCurrentStepIndex() reads the     *)
(* rendered plan of its active plan and marks the step it finds.           *)
(***************************************************************************)
EXTENDS Integers, Sequences, FiniteSets, TLC

\* ------------------------------------------------------------------------
\* Bounds of the model
\* ------------------------------------------------------------------------

\* Number of commands one behaviour issues to the tool.
MaxCmds == 3

\* ------------------------------------------------------------------------
\* Values
\* ------------------------------------------------------------------------

\* null / undefined / "" of a string parameter: all three are falsy, and
\* execute() turns undefined into null.
Null == "<null>"

PlanIds == {"p1", "p2"}
Titles == {"T1", "T2"}
StepTexts == {"a", "b"}
NoteTexts == {"n"}

\* An element of a steps array that is not a string (typeof step !== "string").
NonString == "<number>"

StepStatus == {"not_started", "in_progress", "completed", "blocked"}

\* A status string outside the enumeration.
BadStatus == "done"

\* The values of the steps parameter: null, a truthy value that is not an
\* array, or an array.
NullSteps == [kind |-> "null", items |-> <<>>]
OtherSteps == [kind |-> "other", items |-> <<>>]
ArraySteps(s) == [kind |-> "array", items |-> s]

SeqsUpTo(S, n) == UNION {[1..k -> S] : k \in 0..n}

\* The step lists create and update are called with: the lists of no, one
\* and two steps, and one list of three steps.
StepLists == SeqsUpTo(StepTexts, 2) \cup {<<"a", "b", "a">>}

\* The length of the longest of them.
MaxSteps == CHOOSE n \in 0..Cardinality(StepLists) :
              /\ \E s \in StepLists : Len(s) = n
              /\ \A s \in StepLists : Len(s) <= n

\* step_index: absent (null) is <<>>, the integer i is <<i>>.
NoIndex == <<>>
IndexInputs == {NoIndex} \cup {<<i>> : i \in (0 - 1)..MaxSteps}

\* ------------------------------------------------------------------------
\* State
\* ------------------------------------------------------------------------

VARIABLES
    plans,          \* this.plans: plan id -> Plan (the keys present in the Map)
    order,          \* insertion order of the keys of this.plans
    currentPlanId,  \* this.currentPlanId, Null when there is no active plan
    last,           \* the last command executed and what it returned or threw
    getSeen,        \* the report get last returned, while the store has not changed
    nCmds           \* number of commands executed so far

VARIABLES
    state,          \* this.state of the agent
    currentStep,    \* this.currentStep
    nextStepPrompt, \* this.nextStepPrompt
    memory,         \* this.memory.messages
    toolCalls,      \* this.toolCalls
    toolChoices,    \* this.toolChoices
    availableTools, \* this.availableTools: the registered names, or Undefined
    previousState,  \* previousState of the withState() call in progress
    results,        \* results of the run() call in progress
    pc,             \* the await at which the run() in progress is suspended
    commandIndex,   \* position in this.toolCalls of act()'s loop
    actResults,     \* results of the act() call in progress
    shouldAct,      \* what the last think() returned
    response,       \* what the language model last answered
    lastRun,        \* the run() call in progress, or how the last one ended
    rejected,       \* the run() call the last step turned away, if it was one
    finishedAt,     \* the step of this run in which a special tool ran, or 0
    nSteps,         \* number of step() invocations so far
    nRuns,          \* number of run() calls that entered withState()
    maxSteps,       \* this.maxSteps
    maxMessages,    \* this.memory.maxMessages
    dispatched      \* what the tool collection returned for the last call

VARIABLES
    agents,           \* this.agents of the flow: the keys, in insertion order
    primaryAgentKey,  \* this.primaryAgentKey
    executorKeys,     \* this.executorKeys
    activePlanId,     \* this.activePlanId
    currentStepIndex, \* this.currentStepIndex
    flowPc,           \* the await at which the execute() in progress is suspended
    flowResult,       \* result of the execute() in progress, or what the last returned
    flowOutcome,      \* how the last execute() ended, or that one is in progress
    stepInfo,         \* stepInfo of the iteration in progress
    executor,         \* key of the executor of the iteration in progress
    executorState,    \* executor.state as its last run left it
    runOutcome,       \* how the last run of an executor went
    executorSteps,    \* currentStep of each agent of the flow
    ranSteps,         \* number of steps the last run of an executor performed
    planResponse,     \* what the language model answered to createInitialPlan
    chosen,           \* what the last getExecutor call of the owner returned
    nExecutes,        \* number of execute() calls so far
    nIterations       \* number of steps handed to an executor so far

planVars == <<plans, order, currentPlanId, last, getSeen, nCmds>>

agentVars == <<state, currentStep, nextStepPrompt, memory, toolCalls, toolChoices,
               availableTools, previousState, results, pc, commandIndex, actResults, shouldAct,
               response, lastRun, rejected, finishedAt, nSteps, nRuns,
               maxSteps, maxMessages, dispatched>>

flowVars == <<agents, primaryAgentKey, executorKeys, activePlanId, currentStepIndex,
              flowPc, flowResult, flowOutcome, stepInfo, executor, executorState,
              runOutcome, executorSteps, ranSteps, planResponse, chosen, nExecutes,
              nIterations>>

\* What no step of an agent changes.
fixedVars == <<planVars, flowVars, maxSteps, maxMessages>>

vars == <<planVars, agentVars, flowVars>>

\* ------------------------------------------------------------------------
\* Helpers
\* ------------------------------------------------------------------------

Truthy(s) == s # Null

IsStringArray(steps) ==
    /\ steps.kind = "array"
    /\ \A i \in 1..Len(steps.items) : steps.items[i] # NonString

\* A create that initialises with another status than the one asked for.
FillOther(n, v) == [i \in 1..n |-> IF v = "not_started" THEN "in_progress" ELSE v]

\* Array(n).fill(v)
Fill(n, v) == [i \in 1..n |-> v]

\* What reading an array beyond its end gives.
Undefined == "<undefined>"

\* array[i] of JavaScript, at the 1-based position i.
At(array, i) == IF i \in DOMAIN array THEN array[i] ELSE Undefined

RECURSIVE CountOf(_, _)
CountOf(statuses, s) ==
    IF statuses = <<>> THEN 0
    ELSE (IF Head(statuses) = s THEN 1 ELSE 0) + CountOf(Tail(statuses), s)

RemoveId(seq, id) == SelectSeq(seq, LAMBDA x : x # id)

\* ------------------------------------------------------------------------
\* formatPlan
\* ------------------------------------------------------------------------

\* (completed / totalSteps * 100).toFixed(1), as a number of tenths of a
\* percent: the nearest tenth, the larger one on a tie.
ToFixed1(completed, totalSteps) ==
    (2000 * completed + totalSteps) \div (2 * totalSteps)

\* The "(p%)" part of the progress line: toFixed(1) of the percentage when
\* the plan has steps, the literal "(0%)" when it has none.
Percentage(completed, totalSteps) ==
    IF totalSteps > 0
    THEN [fixed |-> TRUE, tenths |-> ToFixed1(completed, totalSteps)]
    ELSE [fixed |-> FALSE, tenths |-> 0]

\* A glyph table whose key for completed is misspelt.
statusSymbolTypo(status) ==
    CASE status = "not_started" -> "[ ]"
      [] status = "in_progress" -> "[->]"
      [] status = "blocked" -> "[!]"
      [] OTHER -> "[ ]"

\* The glyph of a status; a status outside the table renders as "[ ]".
\* The arrow and the check mark of the source are written "->" and "v".
statusSymbol(status) ==
    CASE status = "not_started" -> "[ ]"
      [] status = "in_progress" -> "[->]"
      [] status = "completed" -> "[v]"
      [] status = "blocked" -> "[!]"
      [] OTHER -> "[ ]"

\* One step of the report: "i. glyph step", and "   Notes: notes" beneath
\* it when the notes are not empty.
StepLine(plan, i) ==
    [index |-> i - 1,
     symbol |-> statusSymbol(At(plan.step_statuses, i)),
     step |-> plan.steps[i],
     notes |-> IF At(plan.step_notes, i) \notin {"", Undefined}
               THEN <<plan.step_notes[i]>> ELSE <<>>]

\* The report of a plan.  The header line and its underline are a function
\* of title and plan_id alone and are kept as these two fields.
formatPlan(plan) ==
    LET totalSteps == Len(plan.steps)
        completed == CountOf(plan.step_statuses, "completed")
        inProgress == CountOf(plan.step_statuses, "in_progress")
        blocked == CountOf(plan.step_statuses, "blocked")
        notStarted == CountOf(plan.step_statuses, "not_started")
    IN  [title |-> plan.title,
         plan_id |-> plan.plan_id,
         completed |-> completed,
         totalSteps |-> totalSteps,
         percentage |-> Percentage(completed, totalSteps),
         inProgress |-> inProgress,
         blocked |-> blocked,
         notStarted |-> notStarted,
         lines |-> [i \in 1..Len(plan.steps) |-> StepLine(plan, i)]]

\* ------------------------------------------------------------------------
\* Results of a command: the store it leaves and what the caller gets
\* ------------------------------------------------------------------------

NoOutput == [msg |-> "", plan_id |-> Null, body |-> <<>>]

\* new ToolResult(`msg ... ${formatPlan(plan)}`)
ToolResult(msg, planId, body) == [msg |-> msg, plan_id |-> planId, body |-> body]

\* return new ToolResult(out) with the store as given.
Return(p, o, c, out) ==
    [plans |-> p, order |-> o, cur |-> c, ok |-> TRUE, error |-> "", output |-> out]

\* throw new ToolError(err) with the store as given.
ThrowFrom(p, err) ==
    [plans |-> p, order |-> order, cur |-> currentPlanId,
     ok |-> FALSE, error |-> err, output |-> NoOutput]

ToolError(err) == ThrowFrom(plans, err)

\* A lookup that only knows the active plan.
ExistsIfActive(planId) == planId = currentPlanId

\* this.plans.has(planId)
PlanExists(planId) == planId \in DOMAIN plans

\* this.plans.set(planId, plan)
PlansSet(planId, plan) ==
    [id \in DOMAIN plans \cup {planId} |-> IF id = planId THEN plan ELSE plans[id]]

OrderSet(planId) ==
    IF PlanExists(planId) THEN order ELSE Append(order, planId)

\* this.plans.delete(planId)
PlansDelete(planId) == [id \in DOMAIN plans \ {planId} |-> plans[id]]

\* ------------------------------------------------------------------------
\* The commands
\* ------------------------------------------------------------------------

createPlan(planId, title, steps) ==
    IF ~Truthy(planId) THEN ToolError("plan_id required: create")
    ELSE IF PlanExists(planId) THEN ToolError("plan already exists")
    ELSE IF ~Truthy(title) THEN ToolError("title required: create")
    ELSE IF steps.kind = "null" \/ steps.kind # "array" \/ ~IsStringArray(steps)
    THEN ToolError("steps must be a non-empty list of strings: create")
    ELSE LET plan == [plan_id |-> planId,
                      title |-> title,
                      steps |-> steps.items,
                      step_statuses |-> Fill(Len(steps.items), "not_started"),
                      step_notes |-> Fill(Len(steps.items), "")]
         IN  Return(PlansSet(planId, plan), OrderSet(planId), planId,
                    ToolResult("Plan created successfully", planId, <<formatPlan(plan)>>))

\* An update that keeps the status of a position whatever its text.
UpdatedStatusByPosition(plan, newSteps, i) ==
    IF i <= Len(plan.steps) THEN plan.step_statuses[i] ELSE "not_started"

\* The status and notes update() gives index i of the new step list.
UpdatedStatus(plan, newSteps, i) ==
    IF i <= Len(plan.steps) /\ newSteps[i] = plan.steps[i]
    THEN plan.step_statuses[i] ELSE "not_started"

UpdatedNotes(plan, newSteps, i) ==
    IF i <= Len(plan.steps) /\ newSteps[i] = plan.steps[i]
    THEN plan.step_notes[i] ELSE ""

NewStatuses(plan, newSteps) ==
    [i \in 1..Len(newSteps) |-> UpdatedStatus(plan, newSteps, i)]

\* An update that leaves the old notes list in place.
StaleNotes(plan, newSteps) == plan.step_notes

NewNotes(plan, newSteps) ==
    [i \in 1..Len(newSteps) |-> UpdatedNotes(plan, newSteps, i)]

updatePlan(planId, title, steps) ==
    IF ~Truthy(planId) THEN ToolError("plan_id required: update")
    ELSE IF ~PlanExists(planId) THEN ToolError("no plan found")
    ELSE LET plan == plans[planId]
             titled == IF Truthy(title) THEN [plan EXCEPT !.title = title] ELSE plan
         IN  IF steps.kind = "null"
             THEN Return(PlansSet(planId, titled), order, currentPlanId,
                         ToolResult("Plan updated successfully", planId,
                                    <<formatPlan(titled)>>))
             ELSE IF steps.kind # "array" \/ ~IsStringArray(steps)
             THEN \* plan.title has been assigned before the steps are looked at
                  ThrowFrom(PlansSet(planId, titled),
                            "steps must be a list of strings: update")
             ELSE LET new == [titled EXCEPT
                                !.steps = steps.items,
                                !.step_statuses = NewStatuses(plan, steps.items),
                                !.step_notes = NewNotes(plan, steps.items)]
                  IN  Return(PlansSet(planId, new), order, currentPlanId,
                             ToolResult("Plan updated successfully", planId,
                                        <<formatPlan(new)>>))

\* One line of list(): id, active marker, title, completed/total.
ListLine(planId) ==
    [plan_id |-> planId,
     active |-> (planId = currentPlanId),
     title |-> plans[planId].title,
     completed |-> CountOf(plans[planId].step_statuses, "completed"),
     total |-> Len(plans[planId].steps)]

listPlans ==
    IF Cardinality(DOMAIN plans) = 0
    THEN Return(plans, order, currentPlanId, ToolResult("No plans available", Null, <<>>))
    ELSE Return(plans, order, currentPlanId,
                ToolResult("Available plans", Null,
                           [i \in 1..Len(order) |-> ListLine(order[i])]))

\* planId, or the active plan when planId is missing (get and mark_step).
ResolveId(planId) == IF Truthy(planId) THEN planId ELSE currentPlanId

\* A get that makes the plan it reports the active one.
getPlanActivates(planId) ==
    IF ~Truthy(planId) /\ ~Truthy(currentPlanId) THEN ToolError("no active plan")
    ELSE IF ~PlanExists(ResolveId(planId)) THEN ToolError("no plan found")
    ELSE Return(plans, order, ResolveId(planId),
                ToolResult("", ResolveId(planId),
                           <<formatPlan(plans[ResolveId(planId)])>>))

getPlan(planId) ==
    IF ~Truthy(planId) /\ ~Truthy(currentPlanId) THEN ToolError("no active plan")
    ELSE IF ~PlanExists(ResolveId(planId)) THEN ToolError("no plan found")
    ELSE Return(plans, order, currentPlanId,
                ToolResult("", ResolveId(planId),
                           <<formatPlan(plans[ResolveId(planId)])>>))

\* A set_active that moves the pointer before it looks the plan up.
setActivePlanAssignsFirst(planId) ==
    IF ~Truthy(planId) THEN ToolError("plan_id required: set_active")
    ELSE IF ~PlanExists(planId)
    THEN [ToolError("no plan found") EXCEPT !.cur = planId]
    ELSE Return(plans, order, planId,
                ToolResult("Plan is now the active plan", planId,
                           <<formatPlan(plans[planId])>>))

setActivePlan(planId) ==
    IF ~Truthy(planId) THEN ToolError("plan_id required: set_active")
    ELSE IF ~PlanExists(planId) THEN ToolError("no plan found")
    ELSE Return(plans, order, planId,
                ToolResult("Plan is now the active plan", planId,
                           <<formatPlan(plans[planId])>>))

\* A range check that lets the index one past the end through.
InvalidIndexOffByOne(stepIndex, plan) == stepIndex < 0 \/ stepIndex > Len(plan.steps)

\* stepIndex < 0 || stepIndex >= plan.steps.length
InvalidIndex(stepIndex, plan) == stepIndex < 0 \/ stepIndex >= Len(plan.steps)

markStep(planId, stepIndex, stepStatus, stepNotes) ==
    IF ~Truthy(planId) /\ ~Truthy(currentPlanId) THEN ToolError("no active plan")
    ELSE IF ~PlanExists(ResolveId(planId)) THEN ToolError("no plan found")
    ELSE IF stepIndex = NoIndex THEN ToolError("step_index required: mark_step")
    ELSE LET id == ResolveId(planId)
             plan == plans[id]
             i == stepIndex[1]
         IN  IF InvalidIndex(i, plan) THEN ToolError("invalid step_index")
             ELSE IF Truthy(stepStatus) /\ stepStatus \notin StepStatus
             THEN ToolError("invalid step_status")
             ELSE LET marked ==
                        [plan EXCEPT
                           !.step_statuses[i + 1] =
                               IF Truthy(stepStatus) THEN stepStatus ELSE @,
                           !.step_notes[i + 1] =
                               IF Truthy(stepNotes) THEN stepNotes ELSE @]
                  IN  Return(PlansSet(id, marked), order, currentPlanId,
                             ToolResult("Step updated in plan", id,
                                        <<formatPlan(marked)>>))

\* A delete that leaves the active pointer alone.
KeepActive(planId) == currentPlanId

\* The active pointer after planId has been deleted.
ActiveAfterDelete(planId) ==
    IF currentPlanId = planId THEN Null ELSE currentPlanId

deletePlan(planId) ==
    IF ~Truthy(planId) THEN ToolError("plan_id required: delete")
    ELSE IF ~PlanExists(planId) THEN ToolError("no plan found")
    ELSE Return(PlansDelete(planId), RemoveId(order, planId),
                ActiveAfterDelete(planId),
                ToolResult("Plan has been deleted", planId, <<>>))

\* ------------------------------------------------------------------------
\* execute(): one command against the store
\* ------------------------------------------------------------------------

NoGet == [plan_id |-> Null, output |-> <<>>, n |-> 0]

\* The command takes the store to r's store and hands r's result to the
\* caller.  getSeen remembers the last report get returned, its plan_id
\* parameter and whether get was called with it once or more than once (n),
\* for as long as the store stays as it is.
execute(command, planId, stepIndex, r) ==
    /\ nCmds < MaxCmds
    /\ nCmds' = nCmds + 1
    /\ plans' = r.plans
    /\ order' = r.order
    /\ currentPlanId' = r.cur
    /\ last' = [command |-> command, plan_id |-> planId, step_index |-> stepIndex,
                ok |-> r.ok, error |-> r.error, output |-> r.output]
    /\ getSeen' =
         IF r.plans # plans \/ r.cur # currentPlanId THEN NoGet
         ELSE IF command = "get" /\ r.ok
              THEN [plan_id |-> planId, output |-> <<r.output>>,
                    n |-> IF getSeen.output # <<>> /\ getSeen.plan_id = planId
                          THEN 2 ELSE 1]
              ELSE getSeen
    /\ UNCHANGED <<agentVars, flowVars>>

ValidSteps == {ArraySteps(s) : s \in StepLists}
BadSteps == {OtherSteps, ArraySteps(<<NonString>>)}

\* The create requests: every well-formed one, and the ones with one
\* parameter missing or malformed.
CreateRequests ==
    [plan_id : PlanIds, title : Titles, steps : ValidSteps \cup BadSteps \cup {NullSteps}]
    \cup [plan_id : PlanIds, title : {Null}, steps : {ArraySteps(<<"a">>)}]
    \cup [plan_id : {Null}, title : {"T1"}, steps : {ArraySteps(<<"a">>)}]

\* The update requests: a new title, a new step list, neither, a new title
\* with a malformed step list, and the ones without a plan id.
UpdateRequests ==
    [plan_id : PlanIds, title : Titles \cup {Null}, steps : BadSteps \cup {NullSteps}]
    \cup [plan_id : PlanIds, title : {Null}, steps : ValidSteps]
    \cup [plan_id : {Null}, title : {"T1"}, steps : {ArraySteps(<<"a">>)}]

Create ==
    \E q \in CreateRequests :
        execute("create", q.plan_id, NoIndex, createPlan(q.plan_id, q.title, q.steps))

Update ==
    \E q \in UpdateRequests :
        execute("update", q.plan_id, NoIndex, updatePlan(q.plan_id, q.title, q.steps))

List == execute("list", Null, NoIndex, listPlans)

Get == \E planId \in PlanIds \cup {Null} : execute("get", planId, NoIndex, getPlan(planId))

SetActive ==
    \E planId \in PlanIds \cup {Null} :
        execute("set_active", planId, NoIndex, setActivePlan(planId))

\* The mark_step requests: a status, notes, both, or neither.
MarkRequests ==
    [status : StepStatus \cup {Null, BadStatus}, notes : {Null}]
    \cup [status : {Null, "completed"}, notes : NoteTexts]

MarkStep ==
    \E planId \in PlanIds \cup {Null}, stepIndex \in IndexInputs, q \in MarkRequests :
        execute("mark_step", planId, stepIndex,
                markStep(planId, stepIndex, q.status, q.notes))

Delete ==
    \E planId \in PlanIds \cup {Null} :
        execute("delete", planId, NoIndex, deletePlan(planId))

\* ------------------------------------------------------------------------
\* The agent: values and the state after construction
\* ------------------------------------------------------------------------

\* enum AgentState.
IDLE == "idle"
RUNNING == "running"
FINISHED == "finished"
ERROR == "error"
AgentState == {IDLE, RUNNING, FINISHED, ERROR}

\* The step limit the agent is constructed with (config.maxSteps).
StepLimit == 2

\* A longer step limit, and a small memory (new Memory(n)).
LongStepLimit == 4
SmallMaxMessages == 3

\* Number of run() calls one behaviour lets into withState().
MaxRuns == 2

\* Defaults of BaseAgent and Memory.
duplicateThreshold == 2
DefaultMaxMessages == 100

\* A text is the tuple of its parts; NoContent is null.
NoContent == <<>>
Text(part) == <<part>>
NEXT_STEP_PROMPT == Text("If you want to stop interaction, use terminate")
stuckPrompt == "Observed duplicate responses"
TOOL_CALL_REQUIRED == "Tool calls required but none provided"
INVALID_STATE == "Cannot run agent from state"

\* new Message(role, content, tool_calls, name, tool_call_id): a field the
\* constructor leaves unset is <<>> or "".
Message(role, content, tool_calls, name, tool_call_id) ==
    [role |-> role, content |-> content, tool_calls |-> tool_calls,
     name |-> name, tool_call_id |-> tool_call_id]
userMessage(content) == Message("user", content, <<>>, "", "")
assistantMessage(content) == Message("assistant", content, <<>>, "", "")
\* A tool message that carries the id of the first call whatever the call.
toolMessageFirstId(content, name, tool_call_id) ==
    Message("tool", content, <<>>, name, "call_1")
toolMessage(content, name, tool_call_id) ==
    Message("tool", content, <<>>, name, tool_call_id)
fromToolCalls(tool_calls, content) == Message("assistant", content, tool_calls, "", "")

\* this.availableTools: the constructor never assigns the field, so it is
\* undefined until the owner of the agent assigns a ToolCollection to it.
NotAssigned == [defined |-> FALSE, names |-> {}]
ToolCollection(names) == [defined |-> TRUE, names |-> names]

\* The result line of a run that has not ended, and of a run() call.
NoRun == [kind |-> "none", error |-> "", output |-> <<>>, request |-> NoContent]
\* No run() call has been turned away.
NoRejected == [kind |-> "none", error |-> "", request |-> NoContent, from |-> IDLE]
\* The language model has not been asked.
NoResponse == [kind |-> "none", content |-> NoContent, tool_calls |-> <<>>]

\* No tool has been dispatched in this step.
NotDispatched == [outcome |-> "none", output |-> <<>>, error |-> ""]

\* The agent as the constructors of BaseAgent and ToolCallAgent leave it,
\* with this.toolChoices = choices, this.availableTools = tools,
\* this.maxSteps = limit and this.memory = new Memory(cap).
Constructed(choices, tools, limit, cap) ==
    /\ maxSteps = limit
    /\ maxMessages = cap
    /\ dispatched = NotDispatched
    /\ state = IDLE
    /\ currentStep = 0
    /\ nextStepPrompt = NEXT_STEP_PROMPT
    /\ memory = <<>>
    /\ toolCalls = <<>>
    /\ toolChoices = choices
    /\ availableTools = tools
    /\ previousState = IDLE
    /\ results = <<>>
    /\ pc = "idle"
    /\ commandIndex = 0
    /\ actResults = <<>>
    /\ shouldAct = FALSE
    /\ response = NoResponse
    /\ lastRun = NoRun
    /\ rejected = NoRejected
    /\ finishedAt = 0
    /\ nSteps = 0
    /\ nRuns = 0

\* The agent with the step limit of its configuration and the default memory.
Unstarted(choices, tools) == Constructed(choices, tools, StepLimit, DefaultMaxMessages)

\* What the owner of a flow hands to its constructor: the agents (their
\* keys, in the order of the map), config.primaryAgentKey and
\* config.executors.
FlowConfig(keys, primary, executors) ==
    [agents |-> keys, primaryAgentKey |-> primary, executors |-> executors]
NoAgents == FlowConfig(<<>>, Null, <<>>)

\* The plan id of the flow (config.planId, or one made from the clock).
FlowPlanId == "p1"

\* BaseFlow.constructor: the primary agent is the configured one, or the
\* first agent of the map.
defaultPrimaryAgentKey(config) ==
    IF config.primaryAgentKey # Null THEN config.primaryAgentKey
    ELSE IF Len(config.agents) > 0 THEN config.agents[1]
    ELSE Null

\* PlanningFlow.constructor: the executor keys are the configured ones, or
\* all the keys of the map.
defaultExecutorKeys(config) ==
    IF Len(config.executors) = 0 THEN config.agents ELSE config.executors

\* No step, no executor, no answer yet.
NoStepInfo == [index |-> NoIndex, text |-> "", type |-> Null]
NoExecutor == "<none>"
NoPlanResponse == [kind |-> "none", tool_calls |-> <<>>]
\* No getExecutor call of the owner yet.
NoChoice == [type |-> Null, key |-> NoExecutor]

\* The flow as the constructors of BaseFlow and PlanningFlow leave it.
FlowConstructed(config) ==
    /\ agents = config.agents
    /\ primaryAgentKey = defaultPrimaryAgentKey(config)
    /\ executorKeys = defaultExecutorKeys(config)
    /\ activePlanId = FlowPlanId
    /\ currentStepIndex = NoIndex
    /\ flowPc = "idle"
    /\ flowResult = <<>>
    /\ flowOutcome = "none"
    /\ stepInfo = NoStepInfo
    /\ executor = NoExecutor
    /\ executorState = IDLE
    /\ runOutcome = "none"
    /\ executorSteps = [key \in {config.agents[i] : i \in 1..Len(config.agents)} |-> 0]
    /\ ranSteps = 0
    /\ planResponse = NoPlanResponse
    /\ chosen = NoChoice
    /\ nExecutes = 0
    /\ nIterations = 0

\* The state after the constructor: no plans, no active plan.
PlanInit ==
    /\ plans = <<>>
    /\ order = <<>>
    /\ currentPlanId = Null
    /\ last = [command |-> "", plan_id |-> Null, step_index |-> NoIndex,
               ok |-> TRUE, error |-> "", output |-> NoOutput]
    /\ getSeen = NoGet
    /\ nCmds = 0
    /\ Unstarted("auto", NotAssigned)
    /\ FlowConstructed(NoAgents)

PlanNext == Create \/ Update \/ List \/ Get \/ SetActive \/ MarkStep \/ Delete

PlanSpec == PlanInit /\ [][PlanNext]_vars

\* ------------------------------------------------------------------------
\* Properties of the plan store
\* ------------------------------------------------------------------------

\* The step just taken executed a command.
Executed == nCmds' = nCmds + 1

\* The store is left exactly as it was.
StoreUnchanged ==
    /\ plans' = plans
    /\ order' = order
    /\ currentPlanId' = currentPlanId

AllEqual(seq, v) == \A i \in 1..Len(seq) : seq[i] = v

\* C1: after every successful create(id, title, steps) the stored plan has a
\* status list that is entirely not_started and a notes list that is entirely
\* empty, both as long as its step list, the returned report shows every step
\* as not started, and the created plan is the active plan.
C1_CreateInitialisesPlan ==
    (last.command = "create" /\ last.ok) =>
        /\ last.plan_id \in DOMAIN plans
        /\ LET plan == plans[last.plan_id]
           IN  /\ Len(plan.step_statuses) = Len(plan.steps)
               /\ Len(plan.step_notes) = Len(plan.steps)
               /\ AllEqual(plan.step_statuses, "not_started")
               /\ AllEqual(plan.step_notes, "")
               /\ last.output.body[1].notStarted = Len(plan.steps)
        /\ currentPlanId = last.plan_id

\* A create of a plan of two or more steps has succeeded while another plan
\* was in the store.
C1_Witness ==
    /\ last.command = "create"
    /\ last.ok
    /\ Cardinality(DOMAIN plans) = 2
    /\ Len(plans[last.plan_id].steps) >= 2

\* C2: create(id, ...) with an id that is present in the store fails, and the
\* plans, their order and the active pointer are left exactly as they were.
C2_CreateExistingFails ==
    [][(Executed /\ last'.command = "create" /\ last'.plan_id \in DOMAIN plans)
          => (~last'.ok /\ StoreUnchanged)]_vars

\* A create of an id in the store has failed, with a second plan in the store
\* and not the named plan active.
C2_Witness ==
    /\ last.command = "create"
    /\ ~last.ok
    /\ last.error = "plan already exists"
    /\ last.plan_id \in DOMAIN plans
    /\ Cardinality(DOMAIN plans) = 2
    /\ currentPlanId # last.plan_id

\* C3: create fails when steps is the empty list, so a successful create
\* never stores a plan without steps.
C3_CreateNeverStoresEmptyPlan ==
    (last.command = "create" /\ last.ok) =>
        (last.plan_id \in DOMAIN plans /\ Len(plans[last.plan_id].steps) > 0)

\* C4: after every successful update of a plan, at every index i of the new
\* step list: when i is within the old list and the text at i is the old
\* text, status and notes at i are the old ones; otherwise the status is
\* not_started and the notes are empty.
C4_UpdatePreservesOrResets ==
    [][(Executed /\ last'.command = "update" /\ last'.ok) =>
          /\ last'.plan_id \in DOMAIN plans
          /\ last'.plan_id \in DOMAIN plans'
          /\ LET old == plans[last'.plan_id]
                 new == plans'[last'.plan_id]
             IN  /\ Len(new.step_statuses) = Len(new.steps)
                 /\ Len(new.step_notes) = Len(new.steps)
                 /\ \A i \in 1..Len(new.steps) :
                       IF i <= Len(old.steps) /\ new.steps[i] = old.steps[i]
                       THEN /\ new.step_statuses[i] = old.step_statuses[i]
                            /\ new.step_notes[i] = old.step_notes[i]
                       ELSE /\ new.step_statuses[i] = "not_started"
                            /\ new.step_notes[i] = ""]_vars

\* An update has left a plan with a step that kept a status a mark_step gave
\* it and a step that is not_started.
C4_Witness ==
    /\ last.command = "update"
    /\ last.ok
    /\ LET plan == plans[last.plan_id]
       IN  /\ Len(plan.steps) >= 2
           /\ \E i \in 1..Len(plan.steps) : plan.step_statuses[i] = "completed"
           /\ \E i \in 1..Len(plan.steps) : plan.step_statuses[i] = "not_started"

\* C5: in every state every plan of the store has a status list and a notes
\* list as long as its step list.
C5_ParallelListsSameLength ==
    \A id \in DOMAIN plans :
        /\ Len(plans[id].step_statuses) = Len(plans[id].steps)
        /\ Len(plans[id].step_notes) = Len(plans[id].steps)

\* An update has changed the number of steps of a plan that carries a mark.
C5_Witness ==
    /\ last.command = "update"
    /\ last.ok
    /\ LET plan == plans[last.plan_id]
       IN  /\ Len(plan.steps) = MaxSteps
           /\ \E i \in 1..Len(plan.step_statuses) : plan.step_statuses[i] = "blocked"

\* C6: mark_step on a plan of the store with a step index below 0 or at or
\* above the plan's step count fails and changes nothing in the store.
C6_MarkStepOutOfRangeFails ==
    [][LET id == IF last'.plan_id # Null THEN last'.plan_id ELSE currentPlanId
       IN  (/\ Executed
            /\ last'.command = "mark_step"
            /\ last'.step_index # NoIndex
            /\ id \in DOMAIN plans
            /\ \/ last'.step_index[1] < 0
               \/ last'.step_index[1] >= Len(plans[id].steps))
           => (~last'.ok /\ StoreUnchanged)]_vars

\* A mark_step at the index right after the last step of a plan that
\* carries a mark has been rejected.
C6_Witness ==
    /\ last.command = "mark_step"
    /\ ~last.ok
    /\ last.error = "invalid step_index"
    /\ currentPlanId \in DOMAIN plans
    /\ last.plan_id \in {Null, currentPlanId}
    /\ last.step_index = <<Len(plans[currentPlanId].steps)>>
    /\ \E i \in 1..Len(plans[currentPlanId].steps) :
          plans[currentPlanId].step_statuses[i] = "completed"

\* C7: a delete of the active plan empties the active pointer; while the
\* pointer is empty, get and mark_step without a plan id fail; and the
\* pointer stays empty until a create or a set_active succeeds.
C7_DeleteActiveClearsPointer ==
    [][Executed =>
          /\ (last'.command = "delete" /\ last'.ok /\ last'.plan_id = currentPlanId)
                => currentPlanId' = Null
          /\ (/\ currentPlanId = Null
              /\ last'.command \in {"get", "mark_step"}
              /\ last'.plan_id = Null)
                => ~last'.ok
          /\ (currentPlanId = Null /\ currentPlanId' # Null)
                => (last'.command \in {"create", "set_active"} /\ last'.ok)]_vars

\* The active plan has been deleted while another plan stays in the store.
C7_Witness ==
    /\ last.command = "delete"
    /\ last.ok
    /\ currentPlanId = Null
    /\ Cardinality(DOMAIN plans) = 1

\* C8: in every state the active pointer is empty or names a plan of the
\* store.
C8_ActivePointerValid ==
    currentPlanId = Null \/ currentPlanId \in DOMAIN plans

\* A set_active naming a plan that is not in the store has been rejected
\* while another plan is active.
C8_Witness ==
    /\ last.command = "set_active"
    /\ ~last.ok
    /\ last.plan_id \in PlanIds \ DOMAIN plans
    /\ currentPlanId \in DOMAIN plans

\* C9: get and list leave the plans and the active pointer as they were, and
\* a get returns the report the previous get with the same plan_id returned
\* when the store has not changed in between.
C9_GetAndListReadOnly ==
    [][Executed =>
          /\ last'.command \in {"get", "list"} => StoreUnchanged
          /\ (/\ last'.command = "get"
              /\ last'.ok
              /\ getSeen.output # <<>>
              /\ getSeen.plan_id = last'.plan_id)
                => last'.output = getSeen.output[1]]_vars

\* A second get with the same plan_id has returned on an unchanged store.
C9_Witness ==
    /\ last.command = "get"
    /\ last.ok
    /\ getSeen.n = 2
    /\ Len(plans[last.output.plan_id].steps) >= 1

\* The glyphs of the four statuses as the report is to show them.
Glyph ==
    [not_started |-> "[ ]", in_progress |-> "[->]", completed |-> "[v]", blocked |-> "[!]"]

NumberOf(statuses, s) == Cardinality({i \in 1..Len(statuses) : statuses[i] = s})

\* C10: the report get returns shows completed/total with completed the
\* number of steps whose status is completed and total the step count, the
\* four per-status counts add up to total, every step line carries the index
\* and the glyph of the step's status, and a two-step plan with one step
\* completed reports 50.0%.
C10_ReportMatchesPlan ==
    (last.command = "get" /\ last.ok) =>
        LET report == last.output.body[1]
            plan == plans[last.output.plan_id]
        IN  /\ report.completed = NumberOf(plan.step_statuses, "completed")
            /\ report.totalSteps = Len(plan.steps)
            /\ report.completed + report.inProgress + report.blocked + report.notStarted
                  = report.totalSteps
            /\ Len(report.lines) = Len(plan.steps)
            /\ \A i \in 1..Len(plan.steps) :
                  /\ report.lines[i].index = i - 1
                  /\ report.lines[i].step = plan.steps[i]
                  /\ report.lines[i].symbol = Glyph[plan.step_statuses[i]]
            /\ (report.totalSteps = 2 /\ report.completed = 1)
                  => report.percentage = [fixed |-> TRUE, tenths |-> 500]

\* get has reported a two-step plan whose step 0 is completed: 1/2, 50.0%,
\* step 0 with the check mark.
C10_Witness ==
    /\ last.command = "get"
    /\ last.ok
    /\ last.output.body[1].completed = 1
    /\ last.output.body[1].totalSteps = 2
    /\ last.output.body[1].percentage.tenths = 500
    /\ last.output.body[1].lines[1].symbol = "[v]"

\* C37: a command that fails leaves the whole store as it was: every plan
\* with its title, steps, statuses and notes, and the active pointer; in
\* particular an update with a new title and a malformed step list.
C37_FailedCommandChangesNothing ==
    [][Executed /\ ~last'.ok => StoreUnchanged]_vars

\* ------------------------------------------------------------------------
\* The agent: memory, tools and the language model
\* ------------------------------------------------------------------------

\* Memory.addMessage: push, then keep the last maxMessages messages.
addMessage(messages, message) ==
    LET pushed == Append(messages, message)
    IN  IF Len(pushed) > maxMessages
        THEN SubSeq(pushed, Len(pushed) - maxMessages + 1, Len(pushed))
        ELSE pushed

\* BaseAgent.updateMemory("user", content).
updateMemory(messages, content) == addMessage(messages, userMessage(content))

\* An isStuck that wants more duplicates than the threshold.
isStuckAboveThreshold(messages) ==
    IF Len(messages) < 2 THEN FALSE
    ELSE LET lastMessage == messages[Len(messages)]
         IN  IF lastMessage.content = NoContent THEN FALSE
             ELSE Cardinality({i \in 1..(Len(messages) - 1) :
                      /\ messages[i].role = "assistant"
                      /\ messages[i].content = lastMessage.content})
                  > duplicateThreshold

\* BaseAgent.isStuck: the last message has content and at least
\* duplicateThreshold earlier assistant messages carry the same content.
isStuck(messages) ==
    IF Len(messages) < 2 THEN FALSE
    ELSE LET lastMessage == messages[Len(messages)]
         IN  IF lastMessage.content = NoContent THEN FALSE
             ELSE Cardinality({i \in 1..(Len(messages) - 1) :
                      /\ messages[i].role = "assistant"
                      /\ messages[i].content = lastMessage.content})
                  >= duplicateThreshold

\* A handleStuckState that puts the stuck prompt in front only once.
handleStuckStateOnce(prompt) ==
    IF Head(prompt) = stuckPrompt THEN prompt ELSE <<stuckPrompt>> \o prompt

\* BaseAgent.handleStuckState: the stuck prompt goes in front of the prompt.
handleStuckState(prompt) == <<stuckPrompt>> \o prompt

\* The tool names the language model may ask for.
ToolNames == {"Terminate", "work", "ghost"}

\* String.toLowerCase on the tool names.
toLowerCase(name) == IF name = "Terminate" THEN "terminate" ELSE name

\* this.specialToolNames as the constructor defaults it: [new Terminate().name].
specialToolNames == {"terminate"}

\* A match that tells upper case from lower case.
isSpecialToolExact(name) == name \in specialToolNames

\* ToolCallAgent.isSpecialTool: a case-insensitive match.
isSpecialTool(name) == toLowerCase(name) \in {toLowerCase(n) : n \in specialToolNames}

\* The tool collections an agent is given.
Collections == {NotAssigned, ToolCollection({}), ToolCollection({"Terminate", "work"})}

\* ToolCollection.getTool: an exact match on the name.
getTool(tools, name) == name \in tools.names

\* interface ToolCall.
ToolCall(id, name, arguments) == [id |-> id, name |-> name, arguments |-> arguments]
BadJSON == "{bad"
\* JSON.parse(arguments || "{}") succeeds.
ParsesAsJSON(arguments) == arguments # BadJSON

\* What tool.execute does with the call: it returns a result with output,
\* returns one without, or throws.
ToolOutcomes == {"output", "no output", "throws"}

\* ToolCollection.execute: the tool's result, a ToolFailure when the tool
\* is not registered or throws.
ToolFailure(error) == [output |-> NoContent, error |-> error]
collectionExecute(tools, name, outcome) ==
    IF ~getTool(tools, name) THEN ToolFailure("invalid")
    ELSE IF outcome = "throws" THEN ToolFailure("thrown")
    ELSE [output |-> IF outcome = "output" THEN Text("output") ELSE NoContent,
          error |-> ""]

\* ToolCallAgent.executeTool: the observation it returns, whether
\* handleSpecialTool moved the agent to finished, whether the tool ran, and
\* whether the call threw (getTool on an undefined collection).
Executed_(observation, finished, ran) ==
    [observation |-> observation, finished |-> finished, ran |-> ran, threw |-> FALSE,
     dispatched |-> NotDispatched]

\* An executeTool that throws when the tool is not registered.
unknownToolThrows(name) ==
    [observation |-> NoContent, finished |-> FALSE, ran |-> FALSE, threw |-> TRUE,
     dispatched |-> NotDispatched]

\* executeTool when getTool finds no tool of that name: an error string.
unknownTool(name) == Executed_(<<"Error: Unknown tool", name>>, FALSE, FALSE)

executeTool(tools, call, outcome) ==
    IF call.name = "" THEN Executed_(<<"Error: Invalid command format">>, FALSE, FALSE)
    ELSE IF ~tools.defined
    THEN [observation |-> NoContent, finished |-> FALSE, ran |-> FALSE, threw |-> TRUE,
          dispatched |-> NotDispatched]
    ELSE IF ~getTool(tools, call.name)
    THEN unknownTool(call.name)
    ELSE IF ~ParsesAsJSON(call.arguments)
    THEN Executed_(<<"Error parsing arguments for", call.name>>, FALSE, FALSE)
    ELSE LET result == collectionExecute(tools, call.name, outcome)
         IN  [observation |-> IF result.output # NoContent
                              THEN <<"Observed output of cmd", call.name>> \o result.output
                              ELSE <<"Cmd", call.name, "completed with no output">>,
              finished |-> isSpecialTool(call.name), ran |-> TRUE, threw |-> FALSE,
              dispatched |-> [outcome |-> outcome, output |-> result.output,
                              error |-> result.error]]

\* What the language model may answer to askTool: a failure (the call
\* throws), or a message with or without content and tool calls.
Contents == {NoContent, Text("thought")}
T1 == ToolCall("call_1", "Terminate", "{}")
W1 == ToolCall("call_1", "work", "{}")
G1 == ToolCall("call_1", "ghost", "{}")
B1 == ToolCall("call_1", "work", BadJSON)
T2 == ToolCall("call_2", "Terminate", "{}")
W2 == ToolCall("call_2", "work", "{}")
CallLists == {<<T1>>, <<W1>>, <<B1>>, <<W1, T2>>, <<T1, W2>>, <<G1, W2>>}
LLMFailure == [kind |-> "failure", content |-> NoContent, tool_calls |-> <<>>]
LLMMessage(content, tool_calls) ==
    [kind |-> "message", content |-> content, tool_calls |-> tool_calls]
Responses ==
    {LLMFailure}
    \cup {LLMMessage(c, <<>>) : c \in Contents}
    \cup {LLMMessage(NoContent, calls) : calls \in CallLists}
    \cup {LLMMessage(Text("thought"), <<W1>>)}
\* With this.availableTools undefined the argument this.availableTools.toParams()
\* throws before the language model is asked.
NotAsked == [kind |-> "not asked", content |-> NoContent, tool_calls |-> <<>>]

\* ------------------------------------------------------------------------
\* The agent: think, act, step and run
\* ------------------------------------------------------------------------

\* ToolCallAgent.think up to the await: the prompt goes into the messages.
thinkPrompt(messages, prompt) ==
    IF prompt # NoContent THEN Append(messages, userMessage(prompt)) ELSE messages

\* A catch of think that returns false and records nothing.
thinkCaughtSilently(messages, calls, error) ==
    [toolCalls |-> calls, memory |-> messages, shouldAct |-> FALSE]

\* The catch of think: an assistant message with the error, and false.
thinkCaught(messages, calls, error) ==
    [toolCalls |-> calls,
     memory |-> addMessage(messages,
                  assistantMessage(<<"Error encountered while processing", error>>)),
     shouldAct |-> FALSE]

\* A think that never acts on content alone.
autoNeverActs(content) == FALSE

\* The auto policy of think with no tool calls: act when there is content.
autoShouldAct(content) == content # NoContent

\* ToolCallAgent.think from the answer on: this.toolCalls, the messages and
\* the value it returns.
think(messages, calls, choices, answer) ==
    IF answer.kind = "not asked" THEN thinkCaught(messages, calls, "TypeError")
    ELSE IF answer.kind = "failure" THEN thinkCaught(messages, calls, "askTool")
    ELSE LET proposed == answer.tool_calls
         IN  IF choices = "none"
             THEN IF answer.content # NoContent
                  THEN [toolCalls |-> proposed,
                        memory |-> addMessage(messages, assistantMessage(answer.content)),
                        shouldAct |-> TRUE]
                  ELSE [toolCalls |-> proposed, memory |-> messages, shouldAct |-> FALSE]
             ELSE [toolCalls |-> proposed,
                   memory |-> addMessage(messages,
                                IF Len(proposed) > 0
                                THEN fromToolCalls(proposed, answer.content)
                                ELSE assistantMessage(answer.content)),
                   shouldAct |->
                      IF choices = "required" /\ Len(proposed) = 0 THEN TRUE
                      ELSE IF choices = "auto" /\ Len(proposed) = 0
                           THEN autoShouldAct(answer.content)
                           ELSE Len(proposed) > 0]

\* The state withState leaves when the callback ends: the catch assigns
\* error, and the finally, which runs after it, assigns previousState.
withStateExit(current, threw) ==
    LET caught == IF threw THEN ERROR ELSE current
    IN  previousState

\* A loop that lets the step counter reach the limit and goes on.
loopContinuesAtLimit(step, current) == step <= maxSteps /\ current # FINISHED

\* The test of the loop of run.
loopContinues(step, current) == step < maxSteps /\ current # FINISHED

\* A test that misses the step at the limit.
reachedPastMaxSteps(step) == step > maxSteps

\* The test after the loop: the step counter is at the limit.
reachedMaxSteps(step) == step >= maxSteps

\* The lines of run's result.
StepLine_(step, stepResult) == [kind |-> "step", step |-> step, result |-> stepResult]
MaxStepsLine == [kind |-> "terminated", step |-> maxSteps, result |-> NoContent]
NoStepsLine == [kind |-> "no steps", step |-> 0, result |-> NoContent]

\* run at the top of its loop, with the messages, the state, the result
\* lines and the prompt as they are by then: either the next step starts
\* and runs up to the await in think, or the loop ends and run returns.
Iterate(messages, current, lines, prompt, request) ==
    /\ nextStepPrompt' = prompt
    /\ IF loopContinues(currentStep, current)
       THEN /\ currentStep' = currentStep + 1
            /\ nSteps' = nSteps + 1
            /\ memory' = thinkPrompt(messages, prompt)
            /\ state' = current
            /\ results' = lines
            /\ pc' = "think"
            /\ lastRun' = [kind |-> "running", error |-> "", output |-> <<>>,
                           request |-> request]
       ELSE LET all == IF reachedMaxSteps(currentStep)
                       THEN Append(lines, MaxStepsLine) ELSE lines
            IN  /\ results' = all
                /\ lastRun' = [kind |-> "returned", error |-> "",
                               output |-> IF all = <<>> THEN <<NoStepsLine>> ELSE all,
                               request |-> request]
                /\ state' = withStateExit(current, FALSE)
                /\ pc' = "idle"
                /\ memory' = messages
                /\ UNCHANGED <<currentStep, nSteps>>

\* step has returned stepResult: the stuck check, the result line, and the
\* loop again.
StepReturns(messages, current, stepResult) ==
    Iterate(messages, current,
            Append(results, StepLine_(currentStep, stepResult)),
            IF isStuck(messages) THEN handleStuckState(nextStepPrompt) ELSE nextStepPrompt,
            lastRun.request)

\* step has thrown: withState's catch and finally, and run fails.
StepThrows(messages, error) ==
    /\ state' = withStateExit(state, TRUE)
    /\ lastRun' = [kind |-> "threw", error |-> error, output |-> <<>>,
                   request |-> lastRun.request]
    /\ pc' = "idle"
    /\ memory' = messages
    /\ UNCHANGED <<currentStep, nSteps, results, nextStepPrompt>>

Requests == {NoContent, Text("task")}

\* The outcome of a run() call that failed its state check; from is the
\* state it found.
Rejected(request) ==
    [kind |-> "rejected", error |-> INVALID_STATE, request |-> request, from |-> state]

\* A run that appends the request before it checks the state.
RunChecksAfterAppend ==
    \E request \in Requests :
        /\ state # IDLE
        /\ rejected' = Rejected(request)
        /\ memory' = IF request # NoContent THEN updateMemory(memory, request) ELSE memory
        /\ UNCHANGED <<fixedVars, dispatched, state, currentStep, nextStepPrompt, toolCalls,
                       toolChoices, availableTools, previousState, results, pc,
                       commandIndex, actResults, shouldAct, response, lastRun,
                       finishedAt, nSteps, nRuns>>

\* run(request) on an agent that is not idle: it throws before it changes
\* anything.
RunRejected ==
    \E request \in Requests :
        /\ state # IDLE
        /\ rejected' = Rejected(request)
        /\ UNCHANGED <<fixedVars, dispatched, state, currentStep, nextStepPrompt, memory, toolCalls,
                       toolChoices, availableTools, previousState, results, pc,
                       commandIndex, actResults, shouldAct, response, lastRun,
                       finishedAt, nSteps, nRuns>>

\* run(request) on an idle agent, up to its first await.
Run ==
    \E request \in Requests :
        /\ state = IDLE
        /\ nRuns < MaxRuns
        /\ nRuns' = nRuns + 1
        /\ previousState' = state
        /\ finishedAt' = 0
        /\ rejected' = NoRejected
        /\ dispatched' = NotDispatched
        /\ Iterate(IF request # NoContent THEN updateMemory(memory, request) ELSE memory,
                   RUNNING, <<>>, nextStepPrompt, request)
        /\ UNCHANGED <<fixedVars, toolCalls, toolChoices, availableTools, commandIndex,
                       actResults, shouldAct, response>>

\* act with no tool call to execute: it throws under the required policy,
\* and returns the content of the last message otherwise.
actWithoutCalls(messages) ==
    IF toolChoices = "required" THEN StepThrows(messages, TOOL_CALL_REQUIRED)
    ELSE StepReturns(messages, state,
            IF messages # <<>> /\ messages[Len(messages)].content # NoContent
            THEN messages[Len(messages)].content
            ELSE <<"No content or commands to execute">>)

\* The language model answers (or askTool throws): the rest of think, and
\* of step up to the next await.
Think ==
    \E answer \in (IF availableTools.defined THEN Responses ELSE {NotAsked}) :
        LET t == think(memory, toolCalls, toolChoices, answer)
        IN  /\ pc = "think"
            /\ response' = answer
            /\ toolCalls' = t.toolCalls
            /\ shouldAct' = t.shouldAct
            /\ IF ~t.shouldAct
               THEN /\ StepReturns(t.memory, state,
                                   <<"Thinking complete - no action needed">>)
                    /\ commandIndex' = 0
               ELSE IF Len(t.toolCalls) = 0
               THEN /\ actWithoutCalls(t.memory)
                    /\ commandIndex' = 0
               ELSE /\ pc' = "act"
                    /\ commandIndex' = 1
                    /\ memory' = t.memory
                    /\ UNCHANGED <<state, currentStep, nSteps, results, lastRun,
                                   nextStepPrompt>>
            /\ actResults' = <<>>
            /\ rejected' = NoRejected
            /\ dispatched' = NotDispatched
            /\ UNCHANGED <<fixedVars, toolChoices, availableTools, previousState,
                           finishedAt, nRuns>>

\* results.join: the results one after the other.
RECURSIVE join(_)
join(texts) == IF texts = <<>> THEN <<>> ELSE Head(texts) \o join(Tail(texts))

\* The call ran a registered tool whose name is, but for the case of its
\* letters, one of the special names.
SpecialRan(call, e) ==
    e.ran /\ \E n \in specialToolNames : toLowerCase(n) = toLowerCase(call.name)

\* A loop of act that is left once the agent is finished.
actStopsWhenFinished(index, current) == index < Len(toolCalls) /\ current # FINISHED

\* for (const command of this.toolCalls): there is a call after the one at
\* index, whatever the state of the agent is.
actContinues(index, current) == index < Len(toolCalls)

\* One turn of the loop of act: the tool call at commandIndex is executed,
\* its tool message is added, and act goes on to the next call or returns.
ExecuteTool ==
    \E outcome \in ToolOutcomes :
        LET call == toolCalls[commandIndex]
            e == executeTool(availableTools, call, outcome)
            messages == addMessage(memory, toolMessage(e.observation, call.name, call.id))
            current == IF e.finished THEN FINISHED ELSE state
        IN  /\ pc = "act"
            /\ IF e.threw
               THEN /\ StepThrows(memory, "TypeError")
                    /\ UNCHANGED <<commandIndex, actResults, finishedAt>>
               ELSE /\ finishedAt' = IF SpecialRan(call, e) THEN currentStep ELSE finishedAt
                    /\ IF actContinues(commandIndex, current)
                       THEN /\ commandIndex' = commandIndex + 1
                            /\ actResults' = Append(actResults, e.observation)
                            /\ memory' = messages
                            /\ state' = current
                            /\ UNCHANGED <<pc, currentStep, nSteps, results, lastRun,
                                           nextStepPrompt>>
                       ELSE /\ commandIndex' = 0
                            /\ actResults' = <<>>
                            /\ StepReturns(messages, current,
                                           join(Append(actResults, e.observation)))
            /\ rejected' = NoRejected
            /\ dispatched' = e.dispatched
            /\ UNCHANGED <<fixedVars, toolCalls, toolChoices, availableTools,
                           previousState, shouldAct, response, nRuns>>

\* An agent as constructed, with the tool-choice policy and the tool
\* collection of its owner; the plan store is not in use.
AgentInit ==
    /\ plans = <<>>
    /\ order = <<>>
    /\ currentPlanId = Null
    /\ last = [command |-> "", plan_id |-> Null, step_index |-> NoIndex,
               ok |-> TRUE, error |-> "", output |-> NoOutput]
    /\ getSeen = NoGet
    /\ nCmds = 0
    /\ \E choices \in {"none", "auto", "required"}, tools \in Collections :
          Unstarted(choices, tools)
    /\ FlowConstructed(NoAgents)

AgentNext == Run \/ RunRejected \/ Think \/ ExecuteTool

AgentSpec == AgentInit /\ [][AgentNext]_vars

\* The same agent with one caller, who calls run() only on an idle agent,
\* when every await of the run in progress is resumed: the language model
\* answers or fails, and the tool returns or throws.
AgentFairNext == Run \/ Think \/ ExecuteTool

AgentFairSpec ==
    AgentInit /\ [][AgentFairNext]_vars /\ WF_vars(Think) /\ WF_vars(ExecuteTool)

\* An agent under the auto policy with an empty tool collection, the longer
\* step limit, and a small memory or the default one.
LongRunInit ==
    /\ plans = <<>>
    /\ order = <<>>
    /\ currentPlanId = Null
    /\ last = [command |-> "", plan_id |-> Null, step_index |-> NoIndex,
               ok |-> TRUE, error |-> "", output |-> NoOutput]
    /\ getSeen = NoGet
    /\ nCmds = 0
    /\ \E cap \in {SmallMaxMessages, DefaultMaxMessages} :
          Constructed("auto", ToolCollection({}), LongStepLimit, cap)
    /\ FlowConstructed(NoAgents)

LongRunSpec == LongRunInit /\ [][AgentNext]_vars

\* ------------------------------------------------------------------------
\* The planning flow
\* ------------------------------------------------------------------------

\* Number of execute() calls, and of steps handed to an executor, in one
\* behaviour.
MaxExecutes == 2
MaxIterations == 3

\* this.agents.has(key)
registered(key) == \E i \in 1..Len(agents) : agents[i] = key

\* BaseFlow.primaryAgent: the agent under the primary key, or null.
primaryAgent ==
    IF primaryAgentKey # Null /\ registered(primaryAgentKey) THEN primaryAgentKey
    ELSE Null

\* A getExecutor that prefers the primary agent to the executor keys.
getExecutorPrimaryFirst(stepType) ==
    IF stepType # Null /\ registered(stepType) THEN stepType
    ELSE IF primaryAgent # Null THEN primaryAgent
    ELSE IF \E i \in 1..Len(executorKeys) : registered(executorKeys[i])
    THEN executorKeys[CHOOSE i \in 1..Len(executorKeys) :
                        /\ registered(executorKeys[i])
                        /\ \A j \in 1..(i - 1) : ~registered(executorKeys[j])]
    ELSE NoExecutor

\* PlanningFlow.getExecutor: the key of the agent it returns, NoExecutor
\* when it throws.
getExecutor(stepType) ==
    IF stepType # Null /\ registered(stepType) THEN stepType
    ELSE IF \E i \in 1..Len(executorKeys) : registered(executorKeys[i])
    THEN executorKeys[CHOOSE i \in 1..Len(executorKeys) :
                        /\ registered(executorKeys[i])
                        /\ \A j \in 1..(i - 1) : ~registered(executorKeys[j])]
    ELSE IF primaryAgent # Null THEN primaryAgent
    ELSE NoExecutor

\* The arguments of a call of the planning tool.
PlanArgs(command, title, steps, stepIndex, stepNotes) ==
    [command |-> command, plan_id |-> Null, title |-> title, steps |-> steps,
     step_index |-> stepIndex, step_status |-> Null, step_notes |-> stepNotes]

\* PlanningTool.execute: the command is dispatched on its name.
planningToolExecute(args) ==
    CASE args.command = "create" -> createPlan(args.plan_id, args.title, args.steps)
      [] args.command = "update" -> updatePlan(args.plan_id, args.title, args.steps)
      [] args.command = "list" -> listPlans
      [] args.command = "get" -> getPlan(args.plan_id)
      [] args.command = "set_active" -> setActivePlan(args.plan_id)
      [] args.command = "mark_step" ->
            markStep(args.plan_id, args.step_index, args.step_status, args.step_notes)
      [] args.command = "delete" -> deletePlan(args.plan_id)
      [] OTHER -> ToolError("Unrecognized command")

\* The step lists the language model writes into a plan.
FlowStepLists == {<<"a">>, <<"[CODE] a", "b">>, <<"tick [ ] box", "b">>}

\* String.includes on these texts: the ones that contain the glyph.
TextIncludes(text, glyph) ==
    glyph = "[ ]" /\ text \in {"tick [ ] box", "redo [ ] later"}

\* text.substring(text.indexOf("]") + 1).trim() on the notes.
afterBracket(text) == IF text = "redo [ ] later" THEN "later" ELSE ""

\* stepText.match(/\[([A-Z_]+)\]/), in lower case; null without a match.
typeOf(text) == IF text = "[CODE] a" THEN "code" ELSE Null

\* The tool calls of the answer to createInitialPlan: the name, whether
\* the arguments parse as JSON, and what they parse to.
PlanCall(name, parses, args) == [name |-> name, parses |-> parses, args |-> args]
CreateCall(steps) ==
    PlanCall("planning", TRUE, PlanArgs("create", "T1", ArraySteps(steps), NoIndex, Null))

\* What the language model may answer to createInitialPlan: askTool throws,
\* or a message.  The messages: no tool call; a planning call that creates
\* a plan, with a title or without, that lists the plans, that puts notes
\* on step 0 or 1, or that marks step 1 in_progress; a planning call whose
\* arguments do not parse, alone or before one that creates a plan; a call
\* of another tool.
PlanMessage(calls) == [kind |-> "message", tool_calls |-> calls]
PlanResponses ==
    LET malformed == PlanCall("planning", FALSE,
                              PlanArgs("create", Null, NullSteps, NoIndex, Null))
    IN  {[kind |-> "failure", tool_calls |-> <<>>],
         PlanMessage(<<>>),
         PlanMessage(<<PlanCall("planning", TRUE,
                         PlanArgs("create", Null, ArraySteps(<<"a">>), NoIndex, Null))>>),
         PlanMessage(<<PlanCall("planning", TRUE,
                         PlanArgs("list", Null, NullSteps, NoIndex, Null))>>),
         PlanMessage(<<PlanCall("planning", TRUE,
                         PlanArgs("mark_step", Null, NullSteps, <<0>>, "redo [ ] later"))>>),
         PlanMessage(<<PlanCall("planning", TRUE,
                         PlanArgs("mark_step", Null, NullSteps, <<1>>, "redo [ ] later"))>>),
         PlanMessage(<<PlanCall("planning", TRUE,
                         [PlanArgs("mark_step", Null, NullSteps, <<1>>, Null)
                             EXCEPT !.step_status = "in_progress"])>>),
         PlanMessage(<<malformed>>),
         PlanMessage(<<malformed, CreateCall(<<"a">>)>>),
         PlanMessage(<<PlanCall("work", TRUE,
                         PlanArgs("create", "T1", ArraySteps(<<"a">>), NoIndex, Null))>>)}
        \cup {PlanMessage(<<CreateCall(steps)>>) : steps \in FlowStepLists}

\* The steps of the default plan of createInitialPlan.
FallbackSteps == <<"Analyze request", "Execute task", "Verify results">>

\* The first call of the answer that createInitialPlan executes: the first
\* planning call whose arguments parse; 0 when there is none.
Executable(call) == call.name = "planning" /\ call.parses
firstPlanningCall(calls) ==
    IF \E i \in 1..Len(calls) : Executable(calls[i])
    THEN CHOOSE i \in 1..Len(calls) :
            Executable(calls[i]) /\ \A j \in 1..(i - 1) : ~Executable(calls[j])
    ELSE 0

\* args.plan_id = this.activePlanId
callArgs(call) == [call.args EXCEPT !.plan_id = activePlanId]

\* PlanningFlow.createInitialPlan from the answer on: the store it leaves,
\* and whether it returns or throws.
createInitialPlan(answer) ==
    IF answer.kind = "failure" THEN ToolError("askTool")
    ELSE LET i == firstPlanningCall(answer.tool_calls)
         IN  IF i # 0 THEN planningToolExecute(callArgs(answer.tool_calls[i]))
             ELSE planningToolExecute(
                     [PlanArgs("create", "Plan for: task", ArraySteps(FallbackSteps),
                               NoIndex, Null) EXCEPT !.plan_id = activePlanId])

\* The lines of the report after "Steps:": the line of each step and,
\* beneath it, the line of its notes when it has some.
RECURSIVE stepLines(_)
stepLines(lines) ==
    IF lines = <<>> THEN <<>>
    ELSE LET l == Head(lines)
         IN  <<[kind |-> "step", index |-> l.index, symbol |-> l.symbol, text |-> l.step]>>
             \o (IF l.notes # <<>>
                 THEN <<[kind |-> "notes", index |-> 0, symbol |-> "",
                         text |-> l.notes[1]]>>
                 ELSE <<>>)
             \o stepLines(Tail(lines))

\* getPlanText: the report of the flow's plan as get renders it; it fails
\* when the store has no such plan.
getPlanText ==
    IF PlanExists(activePlanId)
    THEN [ok |-> TRUE, lines |-> stepLines(formatPlan(plans[activePlanId]).lines)]
    ELSE [ok |-> FALSE, lines |-> <<>>]

\* finalizePlan: the finalization text.
finalizePlan == [kind |-> "final", index |-> NoIndex, error |-> ""]

\* A test that only finds the glyph of not_started.
includesNotStartedOnly(line) ==
    line.symbol = "[ ]" \/ TextIncludes(line.text, "[ ]")

\* line.includes("[ ]") || line.includes("[->]")
includesGlyph(line) ==
    \/ line.symbol \in {"[ ]", "[->]"}
    \/ TextIncludes(line.text, "[ ]")
    \/ TextIncludes(line.text, "[->]")

\* line.substring(line.indexOf("]") + 1).trim(): on the line of a step the
\* first bracket closes the glyph.
stepTextOf(line) == IF line.kind = "step" THEN line.text ELSE afterBracket(line.text)

\* parseInt(line.match(/^\d+/)?.[0] || "0"): the line of a step starts with
\* its index, the line of the notes with blanks.
leadingInteger(line) == IF line.kind = "step" THEN line.index ELSE 0

\* PlanningFlow.getCurrentStepInfo: what it returns, and the store after
\* its mark_step.
getCurrentStepInfo ==
    LET planText == getPlanText
        none == [info |-> NoStepInfo, store |-> Return(plans, order, currentPlanId, NoOutput)]
    IN  IF ~planText.ok THEN none
        ELSE IF ~\E i \in 1..Len(planText.lines) : includesGlyph(planText.lines[i])
        THEN none
        ELSE LET found == CHOOSE i \in 1..Len(planText.lines) :
                            /\ includesGlyph(planText.lines[i])
                            /\ \A j \in 1..(i - 1) : ~includesGlyph(planText.lines[j])
                 line == planText.lines[found]
                 stepIndex == leadingInteger(line)
                 r == markStep(activePlanId, <<stepIndex>>, "in_progress", Null)
             IN  IF r.ok
                 THEN [info |-> [index |-> <<stepIndex>>, text |-> stepTextOf(line),
                                 type |-> typeOf(stepTextOf(line))],
                       store |-> r]
                 ELSE [info |-> NoStepInfo, store |-> r]

\* PlanningFlow.markStepCompleted: the store after it; an error of the
\* tool is caught.
markStepCompleted ==
    IF currentStepIndex = NoIndex THEN Return(plans, order, currentPlanId, NoOutput)
    ELSE markStep(activePlanId, currentStepIndex, "completed", Null)

\* this.plans and this.currentPlanId of the planning tool after a command.
StoreBecomes(r) ==
    /\ plans' = r.plans
    /\ order' = r.order
    /\ currentPlanId' = r.cur

\* What goes into the result of execute: the result of a step, the error
\* of a step, the finalization text, or the failure of execute itself.
ResultPart(kind, index, error) == [kind |-> kind, index |-> index, error |-> error]

\* The catch of execute: it returns "Execution failed" with the error.
ExecuteFails(error) ==
    /\ flowPc' = "idle"
    /\ flowOutcome' = "failed"
    /\ flowResult' = <<ResultPart("failed", NoIndex, error)>>

\* execute(inputText) on a flow with no execute in progress, up to its
\* first await.
FlowExecute ==
    \E inputText \in {"", "task"} :
        /\ flowPc = "idle"
        /\ nExecutes < MaxExecutes
        /\ nExecutes' = nExecutes + 1
        /\ planResponse' = NoPlanResponse
        /\ chosen' = NoChoice
        /\ IF primaryAgent = Null
           THEN ExecuteFails("No primary agent available")
           ELSE /\ flowPc' = IF inputText # "" THEN "plan" ELSE "select"
                /\ flowResult' = <<>>
                /\ flowOutcome' = "running"
        /\ UNCHANGED <<planVars, agentVars, agents, primaryAgentKey, executorKeys,
                       activePlanId, currentStepIndex, stepInfo, executor,
                       executorState, runOutcome, executorSteps, ranSteps, nIterations>>

\* The language model answers the plan-creation call (or askTool throws):
\* the rest of createInitialPlan.
PlanAnswer ==
    \E answer \in PlanResponses :
        LET r == createInitialPlan(answer)
        IN  /\ flowPc = "plan"
            /\ planResponse' = answer
            /\ StoreBecomes(r)
            /\ IF r.ok
               THEN /\ flowPc' = "select"
                    /\ UNCHANGED <<flowResult, flowOutcome>>
               ELSE ExecuteFails(r.error)
            /\ UNCHANGED <<last, getSeen, nCmds, agentVars, agents, primaryAgentKey,
                           executorKeys, activePlanId, currentStepIndex, stepInfo,
                           executor, executorState, runOutcome, executorSteps, ranSteps,
                           chosen, nExecutes, nIterations>>

\* The top of the loop of execute: the current step is looked up and
\* marked, and execute ends with the finalization text or goes on to the
\* run of the executor.
SelectStep ==
    LET s == getCurrentStepInfo
        e == getExecutor(s.info.type)
    IN  /\ flowPc = "select"
        /\ s.info.index = NoIndex \/ nIterations < MaxIterations
        /\ StoreBecomes(s.store)
        /\ currentStepIndex' = s.info.index
        /\ stepInfo' = s.info
        /\ IF s.info.index = NoIndex
           THEN /\ flowResult' = Append(flowResult, finalizePlan)
                /\ flowOutcome' = "returned"
                /\ flowPc' = "idle"
                /\ UNCHANGED <<executor, nIterations>>
           ELSE IF e = NoExecutor
           THEN /\ ExecuteFails("No suitable executor agent available")
                /\ UNCHANGED <<executor, nIterations>>
           ELSE /\ executor' = e
                /\ nIterations' = nIterations + 1
                /\ flowPc' = "run"
                /\ UNCHANGED <<flowResult, flowOutcome>>
        /\ UNCHANGED <<last, getSeen, nCmds, agentVars, agents, primaryAgentKey,
                       executorKeys, activePlanId, executorState, runOutcome,
                       executorSteps, ranSteps, planResponse, chosen, nExecutes>>

\* What the run of the executor does: it returns, it returns after a
\* special tool has moved the agent to finished, or it throws.
ExecutorOutcomes == {"returned", "finished", "threw"}

\* BaseAgent.run on an idle agent whose step counter is at step: the
\* number n of steps its loop performs.  The loop goes on to the step limit
\* unless a step throws or a special tool moves the agent to finished, and
\* it performs no step when the counter is at the limit already.
runSteps(step, outcome, n) ==
    IF outcome = "returned"
    THEN n = (IF loopContinues(step, RUNNING) THEN maxSteps - step ELSE 0)
    ELSE n >= 1 /\ loopContinues(step + n - 1, RUNNING)

\* The end of an iteration of execute: the loop is left when the executor
\* is finished, and goes on otherwise.
LoopTest(after) ==
    IF after = FINISHED
    THEN /\ flowPc' = "idle"
         /\ flowOutcome' = "returned"
    ELSE /\ flowPc' = "select"
         /\ UNCHANGED flowOutcome

\* An executeStep that lets the error of the run through to execute.
executeStepRethrows(after) ==
    /\ ExecuteFails("run")
    /\ UNCHANGED <<plans, order, currentPlanId>>

\* The catch of executeStep: the error text is the result of the step.
executeStepCaught(after) ==
    /\ flowResult' = Append(flowResult, ResultPart("error", stepInfo.index, "run"))
    /\ UNCHANGED <<plans, order, currentPlanId>>
    /\ LoopTest(after)

\* The run of the executor ends: the rest of executeStep, and of the
\* iteration of execute.
ExecutorRuns ==
    \E outcome \in ExecutorOutcomes, n \in 0..maxSteps :
        LET after == withStateExit(IF outcome = "finished" THEN FINISHED ELSE RUNNING,
                                   outcome = "threw")
        IN  /\ flowPc = "run"
            /\ runSteps(executorSteps[executor], outcome, n)
            /\ executorSteps' = [executorSteps EXCEPT ![executor] = @ + n]
            /\ ranSteps' = n
            /\ executorState' = after
            /\ runOutcome' = outcome
            /\ IF outcome = "threw"
               THEN executeStepCaught(after)
               ELSE /\ flowResult' =
                         Append(flowResult, ResultPart("step", stepInfo.index, ""))
                    /\ StoreBecomes(markStepCompleted)
                    /\ LoopTest(after)
            /\ UNCHANGED <<last, getSeen, nCmds, agentVars, agents, primaryAgentKey,
                           executorKeys, activePlanId, currentStepIndex, stepInfo,
                           executor, planResponse, chosen, nExecutes, nIterations>>

\* getExecutor(stepType) called by the owner of a flow at rest.
GetExecutor ==
    \E stepType \in {Null, "code", "ghost"} :
        /\ flowPc = "idle"
        /\ chosen' = [type |-> stepType, key |-> getExecutor(stepType)]
        /\ UNCHANGED <<planVars, agentVars, agents, primaryAgentKey, executorKeys,
                       activePlanId, currentStepIndex, flowPc, flowResult, flowOutcome,
                       stepInfo, executor, executorState, runOutcome, executorSteps,
                       ranSteps, planResponse, nExecutes, nIterations>>

\* The flows: two agents and the defaults, two agents with a primary agent
\* and executor keys of which the first is not registered, one agent that
\* is no executor, one agent and a primary key that is not registered, and
\* no agent.
FlowConfigs ==
    {FlowConfig(<<"planner", "code">>, Null, <<>>),
     FlowConfig(<<"planner", "code">>, "code", <<"ghost", "planner">>),
     FlowConfig(<<"planner">>, "planner", <<"ghost">>),
     FlowConfig(<<"planner">>, "ghost", <<"ghost">>),
     NoAgents}

\* A flow as constructed, with a planning tool of its own; its agents are
\* idle.
FlowInit ==
    /\ plans = <<>>
    /\ order = <<>>
    /\ currentPlanId = Null
    /\ last = [command |-> "", plan_id |-> Null, step_index |-> NoIndex,
               ok |-> TRUE, error |-> "", output |-> NoOutput]
    /\ getSeen = NoGet
    /\ nCmds = 0
    /\ Unstarted("auto", NotAssigned)
    /\ \E config \in FlowConfigs :
          FlowConstructed(config)

FlowNext == FlowExecute \/ PlanAnswer \/ SelectStep \/ ExecutorRuns \/ GetExecutor

FlowSpec == FlowInit /\ [][FlowNext]_vars

\* ------------------------------------------------------------------------
\* The planning agent
\* ------------------------------------------------------------------------

\* line.includes("[ ]") || line.includes(other), where other is not the
\* glyph formatPlan writes for in_progress ("[->]" here): of the glyphs of
\* the report only the one of not_started is found.
planningAgentIncludes(line) ==
    line.symbol = "[ ]" \/ TextIncludes(line.text, "[ ]")

\* PlanningAgent.getCurrentStepIndex: the index it returns, whether it
\* called mark_step, and the result of the last command it gave the tool.
\* The index is the counter of the loop over the lines after "Steps:"; a
\* command that fails comes back from the tool collection as a ToolFailure
\* and is not looked at.
getCurrentStepIndex ==
    LET plan == getPlan(activePlanId)
        lines == stepLines(plan.output.body[1].lines)
        none == [index |-> NoIndex, marked |-> FALSE, store |-> plan]
    IN  IF ~plan.ok THEN none
        ELSE IF ~\E i \in 1..Len(lines) : planningAgentIncludes(lines[i]) THEN none
        ELSE LET found == CHOOSE i \in 1..Len(lines) :
                            /\ planningAgentIncludes(lines[i])
                            /\ \A j \in 1..(i - 1) : ~planningAgentIncludes(lines[j])
             IN  [index |-> <<found - 1>>, marked |-> TRUE,
                  store |-> markStep(activePlanId, <<found - 1>>, "in_progress", Null)]

\* this.currentStepIndex = await this.getCurrentStepIndex(), at the start
\* of think: the get command and, when a line is found, the mark_step
\* command go to the planning tool.
GetCurrentStepIndex ==
    LET s == getCurrentStepIndex
    IN  /\ nCmds + 2 <= MaxCmds
        /\ nCmds' = nCmds + (IF s.marked THEN 2 ELSE 1)
        /\ StoreBecomes(s.store)
        /\ currentStepIndex' = s.index
        /\ last' = [command |-> IF s.marked THEN "mark_step" ELSE "get",
                    plan_id |-> activePlanId, step_index |-> s.index,
                    ok |-> s.store.ok, error |-> s.store.error, output |-> s.store.output]
        /\ getSeen' = NoGet
        /\ UNCHANGED <<agentVars, agents, primaryAgentKey, executorKeys, activePlanId,
                       flowPc, flowResult, flowOutcome, stepInfo, executor, executorState,
                       runOutcome, executorSteps, ranSteps, planResponse, chosen,
                       nExecutes, nIterations>>

\* The plans a planning agent finds under its plan id: one or two steps,
\* each with any status, with notes or without.
AgentPlans ==
    UNION {[plan_id : {FlowPlanId}, title : {"T1"}, steps : {steps},
            step_statuses : [1..Len(steps) -> StepStatus],
            step_notes : [1..Len(steps) -> {"", "n"}]] : steps \in {<<"a">>, <<"a", "b">>}}

\* A planning agent with an idle loop, and the store of its planning tool:
\* its plan as the model and the agent have left it, or no plan.
PlanningAgentInit ==
    /\ \/ plans = <<>> /\ order = <<>> /\ currentPlanId = Null
       \/ \E plan \in AgentPlans :
             /\ plans = [id \in {FlowPlanId} |-> plan]
             /\ order = <<FlowPlanId>>
             /\ currentPlanId = FlowPlanId
    /\ last = [command |-> "", plan_id |-> Null, step_index |-> NoIndex,
               ok |-> TRUE, error |-> "", output |-> NoOutput]
    /\ getSeen = NoGet
    /\ nCmds = 0
    /\ Unstarted("auto", ToolCollection({"planning", "Terminate"}))
    /\ FlowConstructed(NoAgents)

PlanningAgentSpec == PlanningAgentInit /\ [][GetCurrentStepIndex]_vars

\* ------------------------------------------------------------------------
\* Properties of the agent loop
\* ------------------------------------------------------------------------

\* A step in which a run() call is turned away.
RunIsRejected == rejected'.kind = "rejected" /\ rejected' # rejected

\* C11: run() on an agent that is not idle fails with the invalid-state
\* error and changes neither the memory, nor the step counter, nor the
\* state; while the agent is not idle no run() gets into withState.
C11_RunWhenNotIdleRejected ==
    [][state # IDLE =>
          /\ nRuns' = nRuns
          /\ RunIsRejected =>
                /\ rejected'.error = INVALID_STATE
                /\ memory' = memory
                /\ currentStep' = currentStep
                /\ state' = state]_vars

\* A run() with a request was turned away on an agent that a special tool
\* had finished and whose act() was still at work.
C11_Witness ==
    /\ rejected.kind = "rejected"
    /\ rejected.from = FINISHED
    /\ rejected.request = Text("task")
    /\ pc = "act"
    /\ state = FINISHED

\* C12: the step counter never exceeds maxSteps, however many times run()
\* is called, and step() is invoked at most maxSteps times in all.
C12_StepCounterBounded ==
    /\ currentStep <= maxSteps
    /\ nSteps <= maxSteps

\* A second run() on an agent whose counter is at the limit returned
\* without a step.
C12_Witness ==
    /\ nRuns >= 2
    /\ pc = "idle"
    /\ lastRun.kind = "returned"
    /\ currentStep = maxSteps
    /\ nSteps = maxSteps
    /\ results = <<MaxStepsLine>>

\* A run is in progress.
InRun == pc # "idle"

\* C13: every run() started from idle ends when each await of its steps is
\* resumed; a run fails only with the error a step has thrown; and a run
\* that returns with the step counter at the limit has the
\* reached-max-steps marker as the last line of its result.
C13_RunTerminatesWithMarker ==
    /\ InRun ~> ~InRun
    /\ [](lastRun.kind = "threw" => lastRun.error \in {TOOL_CALL_REQUIRED, "TypeError"})
    /\ [](lastRun.kind = "returned" /\ currentStep >= maxSteps
          => lastRun.output[Len(lastRun.output)] = MaxStepsLine)

\* A run used the last step the limit allows and returned with the marker
\* after the result line of that step.
C13_Witness ==
    /\ pc = "idle"
    /\ lastRun.kind = "returned"
    /\ currentStep = maxSteps
    /\ Len(lastRun.output) >= 2
    /\ lastRun.output[Len(lastRun.output) - 1].kind = "step"
    /\ lastRun.output[Len(lastRun.output)] = MaxStepsLine

\* C14: an agent that a special tool moved to finished during run() is
\* finished once that run() has returned.
C14_FinishedStaysFinished ==
    (pc = "idle" /\ lastRun.kind = "returned" /\ finishedAt > 0) => state = FINISHED

\* C15: once run() has failed with the error a step threw, the agent is in
\* state error.
C15_ErrorStateAfterThrow ==
    (pc = "idle" /\ lastRun.kind = "threw") => state = ERROR

\* C16: a run() that returns with the step counter below the limit ran a
\* special tool in its last step; and from the step in which a special tool
\* ran to the end of the run, no further step() is invoked.
C16_OnlySpecialToolEndsEarly ==
    /\ [](lastRun.kind = "returned" /\ currentStep < maxSteps
          => finishedAt > 0 /\ finishedAt = currentStep)
    /\ [][(InRun /\ finishedAt' > 0) => nSteps' = nSteps]_vars

\* A run returned after its first step, in which Terminate ran and then
\* the call after it.
C16_Witness ==
    /\ pc = "idle"
    /\ lastRun.kind = "returned"
    /\ currentStep = 1
    /\ currentStep < maxSteps
    /\ finishedAt = 1
    /\ toolCalls = <<T1, W2>>
    /\ memory[Len(memory)].role = "tool"
    /\ memory[Len(memory)].tool_call_id = "call_2"
    /\ Len(lastRun.output) = 1

\* A tool-role message is in the memory.
HasToolMessage == \E i \in 1..Len(memory) : memory[i].role = "tool"

\* C17: under the policy none the tool calls of the answer are discarded:
\* think returns true exactly when the answer has content, act never gets
\* to execute a tool call, and no tool-role message is appended to memory.
C17_NoneDiscardsToolCalls ==
    toolChoices = "none" =>
        /\ pc # "act"
        /\ ~HasToolMessage
        /\ response.kind = "message" => (shouldAct <=> response.content # NoContent)

\* A step in which the language model answers, or the try of think throws.
ThinkStep == pc = "think" /\ rejected'.kind = "none"

\* The first step of the first run is over and no answer has come since:
\* the second step is waiting for its answer, or the run has ended.
FirstStepOver ==
    /\ nRuns = 1
    /\ \/ pc = "think" /\ currentStep = 2 /\ Len(results) = 1
       \/ pc = "idle" /\ currentStep = 1

\* C18: under the policy required, a step in which the language model
\* proposes no tool call has think return true and act throw the
\* tool-call-required error, which fails the run; for an agent without
\* tools, whose language model neither fails nor proposes a call, that is
\* the first step.
C18_RequiredWithoutCallsFails ==
    /\ [][(ThinkStep /\ toolChoices = "required" /\ response'.kind = "message"
            /\ response'.tool_calls = <<>>)
          => /\ shouldAct'
             /\ pc' = "idle"
             /\ lastRun'.kind = "threw"
             /\ lastRun'.error = TOOL_CALL_REQUIRED]_vars
    /\ []((toolChoices = "required" /\ availableTools.names = {} /\ FirstStepOver
            /\ response.kind # "failure" /\ response.tool_calls = <<>>)
          => (lastRun.kind = "threw" /\ lastRun.error = TOOL_CALL_REQUIRED
              /\ currentStep = 1))

\* The step that ends in this step of the model has gone through act.
ActInvoked ==
    \/ pc' = "act"
    \/ lastRun'.kind = "threw"
    \/ /\ Len(results') > Len(results)
       /\ results'[Len(results) + 1].result # <<"Thinking complete - no action needed">>

\* C19: under the policy auto, think returns true exactly when the answer
\* proposes a tool call or, with no tool call, has content; and the step
\* goes through act only when think returned true.
C19_AutoActsOnCallsOrContent ==
    [][(ThinkStep /\ toolChoices = "auto") =>
          /\ response'.kind = "message" =>
                (shouldAct' <=> (Len(response'.tool_calls) >= 1
                                 \/ response'.content # NoContent))
          /\ ActInvoked => shouldAct']_vars

\* Under auto an answer with content and no tool call made think return
\* true, and act returned that content as the result of the step.
C19_Witness ==
    /\ toolChoices = "auto"
    /\ response = LLMMessage(Text("thought"), <<>>)
    /\ shouldAct
    /\ results # <<>>
    /\ results[Len(results)].result = Text("thought")

\* The number of tool calls act has dealt with, and the position in memory
\* of the last message act has appended: while act is at work, when the
\* next step of the run has pushed its prompt, and when the run is over.
Handled == IF pc = "act" THEN commandIndex - 1 ELSE Len(toolCalls)
ActEnd == IF pc = "think" THEN Len(memory) - 1 ELSE Len(memory)
ActSeen ==
    /\ shouldAct
    /\ toolCalls # <<>>
    /\ \/ pc = "act"
       \/ pc = "think" /\ results # <<>>
       \/ pc = "idle" /\ lastRun.kind = "returned" /\ results[1].kind = "step"

\* C20: act deals with the tool calls in the order received, one at a
\* time: when it is about to execute a call, and when it is done, memory
\* ends with exactly one tool-role message for each call dealt with, in
\* call order, each with the name and the id of its call, whatever the
\* outcome of the call.
C20_OneToolMessagePerCallInOrder ==
    ActSeen =>
        /\ ActEnd - Handled >= 1
        /\ memory[ActEnd - Handled].role = "assistant"
        /\ \A i \in 1..Handled :
              LET message == memory[ActEnd - Handled + i]
              IN  /\ message.role = "tool"
                  /\ message.tool_call_id = toolCalls[i].id
                  /\ message.name = toolCalls[i].name

\* act is about to execute the second of two calls: the first, to a tool
\* that is not registered, has its error in memory under its id.
C20_Witness ==
    /\ pc = "act"
    /\ commandIndex = 2
    /\ toolCalls = <<G1, W2>>
    /\ memory[Len(memory)].role = "tool"
    /\ memory[Len(memory)].tool_call_id = "call_1"
    /\ memory[Len(memory)].content = <<"Error: Unknown tool", "ghost">>

\* A turn of the loop of act: a step taken while act awaits executeTool that
\* is not a run() call turned away.
DispatchStep == pc = "act" /\ rejected'.kind = "none"

\* C21: a tool call that names a tool that is not registered, that carries
\* arguments that do not parse, or whose tool throws does not make act or
\* the tool collection throw: the run goes on, the call gets its tool
\* message, which carries the error when the tool is unknown or the
\* arguments malformed, the tool collection returns a result with an error
\* when the tool throws, and the next call of the batch is dispatched.
C21_DispatchErrorsBecomeResults ==
    [][DispatchStep =>
        LET call == toolCalls[commandIndex]
            message == memory'[Len(memory) + 1]
        IN  /\ lastRun'.kind # "threw"
            /\ message.role = "tool"
            /\ message.tool_call_id = call.id
            /\ ~getTool(availableTools, call.name)
                  => message.content = <<"Error: Unknown tool", call.name>>
            /\ getTool(availableTools, call.name) /\ call.arguments = BadJSON
                  => message.content = <<"Error parsing arguments for", call.name>>
            /\ dispatched'.outcome = "throws" => dispatched'.error # ""
            /\ commandIndex < Len(toolCalls)
                  => pc' = "act" /\ commandIndex' = commandIndex + 1]_vars

\* The second call of a batch has been dispatched after the first named an
\* unknown tool, and its tool threw: both have their tool message and the
\* run is at its next step.
C21_Witness ==
    /\ pc = "think"
    /\ toolCalls = <<G1, W2>>
    /\ dispatched.outcome = "throws"
    /\ dispatched.error = "thrown"
    /\ Len(memory) >= 3
    /\ memory[Len(memory) - 2].content = <<"Error: Unknown tool", "ghost">>
    /\ memory[Len(memory) - 1].tool_call_id = "call_2"
    /\ memory[Len(memory) - 1].content = <<"Cmd", "work", "completed with no output">>

\* C22: when askTool fails during a step, the step appends an assistant
\* message that records the error, and it does so before the prompt of the
\* next step goes into memory.
C22_BoundaryFailureRecorded ==
    [][ThinkStep /\ response'.kind = "failure" =>
        /\ Len(memory') > Len(memory)
        /\ memory'[Len(memory) + 1] =
               assistantMessage(<<"Error encountered while processing", "askTool">>)
        /\ pc' = "think" =>
               /\ Len(memory') = Len(memory) + 2
               /\ memory'[Len(memory) + 2] = userMessage(nextStepPrompt')]_vars

\* askTool failed in the first step: the error message is in memory, and
\* the second step has pushed its prompt after it.
C22_Witness ==
    /\ pc = "think"
    /\ currentStep = 2
    /\ response.kind = "failure"
    /\ memory[Len(memory) - 1].role = "assistant"
    /\ memory[Len(memory) - 1].content = <<"Error encountered while processing", "askTool">>
    /\ memory[Len(memory)].role = "user"

\* A step of run has returned: its line is appended to the results.
StepReturned ==
    /\ Len(results') > Len(results)
    /\ results'[Len(results) + 1].kind = "step"

\* The most recent message has content, and at least duplicateThreshold
\* earlier assistant messages have the same content.
Repeats(messages) ==
    /\ messages # <<>>
    /\ messages[Len(messages)].content # NoContent
    /\ LET same == {i \in 1..(Len(messages) - 1) :
                        /\ messages[i].role = "assistant"
                        /\ messages[i].content = messages[Len(messages)].content}
       IN  \E earlier \in SUBSET same : Cardinality(earlier) = duplicateThreshold

\* C23: after each step of run the stuck prompt is put in front of the
\* next-step prompt if and only if the most recent message of memory (as
\* the step left it, before the next prompt is pushed) has non-empty
\* content equal to that of at least duplicateThreshold earlier assistant
\* messages; the prompt changes at no other time.
C23_StuckPromptIffRepeats ==
    [][LET afterStep == IF pc' = "think"
                        THEN SubSeq(memory', 1, Len(memory') - 1)
                        ELSE memory'
       IN  /\ StepReturned =>
                nextStepPrompt' = IF Repeats(afterStep)
                                  THEN <<stuckPrompt>> \o nextStepPrompt
                                  ELSE nextStepPrompt
           /\ ~StepReturned => nextStepPrompt' = nextStepPrompt]_vars

\* Three steps have each left the same thought in memory: after the third
\* the prompt starts with the stuck prompt.
C23_Witness ==
    /\ currentStep >= 3
    /\ Len(results) = 3
    /\ results[3].kind = "step"
    /\ Head(nextStepPrompt) = stuckPrompt
    /\ Cardinality({i \in 1..Len(memory) :
           memory[i].role = "assistant" /\ memory[i].content = Text("thought")}) = 3

\* C24: at every point of a run the memory of the agent holds at most
\* maxMessages messages, whichever way the message was added.
C24_MemoryWithinCap == Len(memory) <= maxMessages

\* The next-step prompt is some copies of the stuck prompt followed by the
\* prompt the agent was configured with.
CopiesThenPrompt ==
    /\ Len(nextStepPrompt) >= 1
    /\ nextStepPrompt[Len(nextStepPrompt)] = NEXT_STEP_PROMPT[1]
    /\ \A i \in 1..(Len(nextStepPrompt) - 1) : nextStepPrompt[i] = stuckPrompt

\* C40: the stuck prompt is never taken out again and every step at which
\* the stuck condition holds puts one more copy in front: the prompt is
\* always copies of the stuck prompt followed by the configured prompt,
\* and the number of copies grows by one at each such step and stays as it
\* is at every other step, so that after k such steps there are k copies.
C40_StuckCopiesAccumulate ==
    /\ []CopiesThenPrompt
    /\ [][LET afterStep == IF pc' = "think"
                           THEN SubSeq(memory', 1, Len(memory') - 1)
                           ELSE memory'
          IN  Len(nextStepPrompt') =
                 Len(nextStepPrompt)
                    + (IF StepReturned /\ Repeats(afterStep) THEN 1 ELSE 0)]_vars

\* The stuck condition held after the third and after the fourth step of a
\* run: the prompt is two copies of the stuck prompt and the configured
\* prompt.
C40_Witness ==
    /\ currentStep = 4
    /\ Len(results) >= 4
    /\ nextStepPrompt = <<stuckPrompt, stuckPrompt>> \o NEXT_STEP_PROMPT

\* C34: a call of a special tool that ends in an error result, because
\* the tool threw or because its arguments do not parse, does not move the
\* agent to finished: the state stays running, and the run goes on to its
\* next step when the step limit allows one.
C34_SpecialToolFinishesOnlyOnSuccess ==
    [][/\ DispatchStep
       /\ availableTools.defined
       /\ state = RUNNING
       /\ isSpecialTool(toolCalls[commandIndex].name)
       /\ dispatched'.error # "" \/ ~ParsesAsJSON(toolCalls[commandIndex].arguments)
       => /\ state' # FINISHED
          /\ pc' # "act" /\ currentStep < maxSteps => lastRun'.kind = "running"]_vars

\* C39: a special tool call does not cut its batch short.  The call of a
\* special tool and every call after it in the batch is executed and gets
\* its tool message, in the order of the batch; act goes on to the next
\* call although the agent is finished, and run returns only when the last
\* call of the batch has been handled.
C39_SpecialToolDoesNotCutBatch ==
    [][DispatchStep /\ finishedAt' = currentStep =>
        LET call == toolCalls[commandIndex]
            message == memory'[Len(memory) + 1]
        IN  /\ Len(memory') = Len(memory) + 1
            /\ message.role = "tool"
            /\ message.tool_call_id = call.id
            /\ message.name = call.name
            /\ getTool(availableTools, call.name) /\ ParsesAsJSON(call.arguments)
                  => dispatched'.outcome # "none"
            /\ IF commandIndex < Len(toolCalls)
               THEN /\ pc' = "act"
                    /\ commandIndex' = commandIndex + 1
                    /\ lastRun'.kind = "running"
               ELSE /\ pc' = "idle"
                    /\ lastRun'.kind = "returned"]_vars

\* Terminate was the first call of a batch of two: the call after it ran
\* its tool, both calls have their tool message, in order, and the run has
\* returned in that step.
C39_Witness ==
    /\ lastRun.kind = "returned"
    /\ toolCalls = <<T1, W2>>
    /\ finishedAt = currentStep
    /\ dispatched.outcome = "output"
    /\ Len(memory) >= 2
    /\ memory[Len(memory) - 1].role = "tool"
    /\ memory[Len(memory) - 1].tool_call_id = "call_1"
    /\ memory[Len(memory)].role = "tool"
    /\ memory[Len(memory)].tool_call_id = "call_2"
    /\ memory[Len(memory)].content = <<"Observed output of cmd", "work", "output">>

\* ------------------------------------------------------------------------
\* Properties of the planning flow
\* ------------------------------------------------------------------------

\* C25: whatever the language model answers to the plan-creation call, a
\* plan with the id of the flow is in the store when the loop over the
\* steps begins.
C25_PlanExistsWhenLoopBegins ==
    flowPc = "select" /\ planResponse.kind = "message" => PlanExists(activePlanId)

\* C26: when the answer to the plan-creation call has no tool call, the
\* flow creates a plan under its own id with exactly the three fallback
\* steps, all not_started, and that plan is the active one.
C26_FallbackPlanCreated ==
    [][flowPc = "plan" /\ planResponse'.kind = "message" /\ planResponse'.tool_calls = <<>>
        => /\ activePlanId \in DOMAIN plans'
           /\ plans'[activePlanId].steps = FallbackSteps
           /\ plans'[activePlanId].step_statuses = Fill(3, "not_started")
           /\ currentPlanId' = activePlanId]_vars

\* An iteration of the loop of execute has selected a step and hands it to
\* an executor.
Selected == flowPc = "select" /\ flowPc' = "run"

OpenStatus == {"not_started", "in_progress"}

\* C27: the step an iteration selects is the step of lowest index whose
\* status, as the iteration found it, is not_started or in_progress; a
\* completed or blocked step is never selected.
C27_LowestOpenStepSelected ==
    [][Selected =>
        LET statuses == plans[activePlanId].step_statuses
            i == currentStepIndex'[1] + 1
        IN  /\ statuses[i] \in OpenStatus
            /\ \A j \in 1..(i - 1) : statuses[j] \notin OpenStatus]_vars

\* The keys of the registered agents, and the executor that comes first:
\* the agent of the step type, then the first executor key with an agent,
\* then the primary agent.
RegisteredKeys == {agents[i] : i \in 1..Len(agents)}
Preferred(type) ==
    LET candidates == {i \in 1..Len(executorKeys) : executorKeys[i] \in RegisteredKeys}
    IN  IF type \in RegisteredKeys THEN type
        ELSE IF candidates # {}
        THEN executorKeys[CHOOSE i \in candidates : \A j \in candidates : i <= j]
        ELSE IF primaryAgentKey \in RegisteredKeys THEN primaryAgentKey
        ELSE NoExecutor

\* C28: the executor of a step is the agent registered under the type of
\* the step if there is one, otherwise the agent of the first executor key
\* that is registered, otherwise the primary agent; getExecutor fails only
\* when there is none of them.
C28_ExecutorPreference ==
    /\ flowPc = "run" => executor = Preferred(stepInfo.type)
    /\ chosen # NoChoice => chosen.key = Preferred(chosen.type)

\* A step tagged [CODE] is with the agent registered as code, in a flow
\* whose first registered executor key is another agent.
C28_Witness ==
    /\ flowPc = "run"
    /\ stepInfo.type = "code"
    /\ executor = "code"
    /\ executorKeys = <<"ghost", "planner">>

\* C29: when the run for a step has moved its executor to finished, the
\* loop of execute stops after that step.
C29_FinishedExecutorStopsLoop ==
    [][flowPc = "run" /\ runOutcome' = "finished" => flowPc' = "idle"]_vars

\* C30: when the run of the executor throws, execute goes on: the result
\* gets the error text of that step, the step is not marked completed, and
\* the loop is back at selecting a step.
C30_StepFailureDoesNotStopFlow ==
    [][flowPc = "run" /\ runOutcome' = "threw" =>
        /\ flowOutcome' = "running"
        /\ flowPc' = "select"
        /\ flowResult' = Append(flowResult, ResultPart("error", stepInfo.index, "run"))
        /\ plans'[activePlanId].step_statuses[stepInfo.index[1] + 1] = "in_progress"]_vars

\* The run for step 0 has thrown, and the next iteration has selected
\* step 0 again.
C30_Witness ==
    /\ flowPc = "run"
    /\ runOutcome = "threw"
    /\ nIterations = 2
    /\ currentStepIndex = <<0>>
    /\ flowResult = <<ResultPart("error", <<0>>, "run")>>

\* No step of the flow's plan is not_started or in_progress.
NoOpenStep ==
    /\ PlanExists(activePlanId)
    /\ \A i \in 1..Len(plans[activePlanId].steps) :
          plans[activePlanId].step_statuses[i] \notin OpenStatus

\* C31: execute returns: its loop runs finitely often, and it ends when no
\* step of the plan is not_started or in_progress.  Checked in the form a
\* finite run decides: an iteration that finds no such step ends the loop,
\* and execute returns.
C31_LoopEndsWhenNoOpenStep ==
    [][flowPc = "select" /\ NoOpenStep =>
        flowPc' = "idle" /\ flowOutcome' = "returned"]_vars

\* The run of the executor has returned and the step is marked completed.
Completed == flowPc = "run" /\ flowPc' # "run" /\ runOutcome' # "threw"

\* The statuses of the flow's plan are those of before except at position
\* i, where the status is s.
OnlyStatusSet(i, s) ==
    /\ i \in 1..Len(plans[activePlanId].steps)
    /\ plans'[activePlanId] =
          [plans[activePlanId] EXCEPT !.step_statuses[i] = s]

\* C32: the index an iteration marks in_progress, and completed when the
\* run of the executor has returned, is the position in the plan of the
\* step whose text the executor is given, and the iteration changes the
\* status of no other step.
C32_MarkedIndexIsStepHandedOver ==
    [][/\ Selected =>
            /\ OnlyStatusSet(currentStepIndex'[1] + 1, "in_progress")
            /\ stepInfo'.text = plans[activePlanId].steps[currentStepIndex'[1] + 1]
       /\ Completed =>
            /\ currentStepIndex = stepInfo.index
            /\ OnlyStatusSet(currentStepIndex[1] + 1, "completed")]_vars

\* ------------------------------------------------------------------------
\* Properties of the planning agent
\* ------------------------------------------------------------------------

\* A step in which getCurrentStepIndex is called.
Looked == nCmds' > nCmds

\* The positions of the steps of the agent's plan that are not_started or
\* in_progress.
OpenSteps ==
    IF PlanExists(activePlanId)
    THEN {i \in 1..Len(plans[activePlanId].steps) :
            plans[activePlanId].step_statuses[i] \in OpenStatus}
    ELSE {}

\* C33: getCurrentStepIndex returns the index of the first step of the
\* plan that is not_started or in_progress, as its position in the step
\* list whatever notes the steps before it carry, and marks that step
\* in_progress; it returns null, and marks nothing, when there is none.
C33_FirstOpenStepIndex ==
    [][Looked =>
        IF OpenSteps = {}
        THEN currentStepIndex' = NoIndex /\ StoreUnchanged
        ELSE LET first == CHOOSE i \in OpenSteps : \A j \in OpenSteps : i <= j
             IN  /\ currentStepIndex' = <<first - 1>>
                 /\ OnlyStatusSet(first, "in_progress")]_vars

\* ------------------------------------------------------------------------
\* Properties of the planning flow: the statuses of the steps
\* ------------------------------------------------------------------------

\* How far a status is: not_started, then in_progress, then completed or
\* blocked.
Rank(status) ==
    CASE status = "not_started" -> 0
      [] status = "in_progress" -> 1
      [] OTHER -> 2

\* C35: in the loop of execute the status of every step of the flow's plan
\* only moves forward: a step the flow has marked completed is not marked
\* in_progress again, whatever the texts of the steps are.
C35_StatusesOnlyMoveForward ==
    [][PlanExists(activePlanId) /\ flowPc \in {"select", "run"} =>
        (\A i \in 1..Len(plans[activePlanId].steps) :
            Rank(plans[activePlanId].step_statuses[i])
               <= Rank(plans'[activePlanId].step_statuses[i]))]_vars

\* C36: while execute is at work on the plan of the flow, at most one step
\* of the plan is in_progress.
C36_AtMostOneInProgress ==
    flowPc # "idle" /\ PlanExists(activePlanId) =>
        CountOf(plans[activePlanId].step_statuses, "in_progress") <= 1

\* The run for step 0 of a plan of two steps has thrown and left the step
\* in_progress; the next iteration has found it again, with step 1 still
\* not_started.
C36_Witness ==
    /\ flowPc = "run"
    /\ runOutcome = "threw"
    /\ PlanExists(activePlanId)
    /\ plans[activePlanId].step_statuses = <<"in_progress", "not_started">>
    /\ stepInfo.index = <<0>>
    /\ ranSteps = 1

\* C38: when the flow marks a step completed, the executor of that step
\* has performed at least one step in the run for it, also when it has run
\* for earlier steps of the plan.
C38_CompletedStepWasWorkedOn ==
    [][Completed => ranSteps' >= 1]_vars



====
